---- MODULE Spec2Model ----
(***************************************************************************)
(* A model of the supervisor's API key store (lib/api-keys), of the device *)
(* API's input validation middleware (device-api/middleware/validation)    *)
(* with the io-ts codecs it decodes with, of the v1 stop/start handler, of *)
(* host-config's patch and of lib/fs-utils' writeFileAtomic.               *)
(*                                                                         *)
(* Twelve specifications share the module:                                 *)
(*   Spec         the key store: issuance, refresh, lookup and cache       *)
(*                expiry, each call running to completion before the next  *)
(*                starts;                                                  *)
(*   SpecRace     two forced generateKey calls for one pair whose awaits   *)
(*                interleave and whose store statements may fail;          *)
(*   SpecLists    the key store on scope lists of several scopes;          *)
(*   SpecScope    the pure scope predicate isScoped;                       *)
(*   SpecVal      one request going through inputValidator;                *)
(*   SpecValFair  the same under weak fairness of the handler's steps;     *)
(*   SpecRequests a sequence of requests going through inputValidator;     *)
(*   SpecRoute    getRouteMethodAndPath on request paths;                  *)
(*   SpecDefault  withDefault(type, defaultValue, shouldDefault).decode;   *)
(*   SpecStopStart the v1 stop/start handler on one request;               *)
(*   SpecHost     host-config's patch of hostname, proxy and dns;          *)
(*   SpecFiles    writeFileAtomic by one or two callers and a reader.      *)
(***************************************************************************)
EXTENDS Integers, Sequences, FiniteSets, TLC

VARIABLES
    \* ---- key store (Spec) ----
    store,           \* the apiSecret table: rows in insertion order
    cacheByService,  \* memoizee cache of getApiKeyForService: {[id, value]}
    cacheByKey,      \* memoizee cache of getApiKeyByKey: {[id, value]}
    cloudApiKey,     \* the exported cloudApiKey; 0 stands for ''
    nextKey,         \* the next value generateUniqueKey hands out
    inited,          \* whether the `initialized` promise has resolved
    lastOp,          \* the call that completed last, with what it did
    returned,        \* {<<appId, serviceName, key>>}: keys generateKey returned
    retired,         \* keys returned for a pair before its latest forced run
    revoked,         \* {[key, cloud]}: the keys refreshKey has replaced
    \* ---- isScoped (SpecScope) ----
    resources,       \* the resources asked for: [hasApps, apps]
    scopeList,       \* the scopes of the key
    scoped,          \* [done, value]: what isScoped answered
    \* ---- inputValidator (SpecVal) ----
    req,             \* the request: [method, path, params, body, query]
    auth,            \* req.auth: the scopes of the caller's key
    lockOverride,    \* what config.get('lockOverride') resolves to
    valPc,           \* "received", "decoding", "done" or "threw"
    methodAndPath,   \* the route key the schema was looked up with
    checks,          \* the route's checks: required, then optional
    decodedInputs,   \* per check: [settled, order, decoded, schema]; order is
                     \* the rank at which a required check's promise settled
    response,        \* res: the response, res.locals included
    warned,          \* the arguments of the log.warn calls, in order
    nextCalls,       \* how many times next() was called
    defaultCalls,    \* the schemas whose getDefault() was called, in order
    applied,         \* the checks the loop has handled, in order
    registry,        \* the module's inputValidationSchema object, by route key
    served,          \* how many requests the validator has finished with
    \* ---- getRouteMethodAndPath (SpecRoute) ----
    routeReqs,       \* two requests that differ in the identifier segment
    routeIds,        \* the identifier segment of each
    routed,          \* per request: [done, methodAndPath, appId]
    \* ---- racing rotations (SpecRace) ----
    race,            \* the pair and, per generateKey call: [pc, secrets, key]
    \* ---- withDefault (SpecDefault) ----
    wd,              \* [type, defaultValue, shouldDefault, v, done, threw, decoded]
    \* ---- stopOrStart (SpecStopStart) ----
    ss,              \* the handler's inputs, position, effects and response
    \* ---- host-config patch (SpecHost) ----
    host,            \* the host's configuration, the patch and its position
    \* ---- writeFileAtomic (SpecFiles) ----
    fsys             \* the directory, the files and each writer's position

keyVars == <<store, cacheByService, cacheByKey, cloudApiKey, nextKey, inited,
             lastOp, returned, retired, revoked>>

scopeVars == <<resources, scopeList, scoped>>

valVars == <<req, auth, lockOverride, valPc, methodAndPath, checks, decodedInputs,
             response, warned, nextCalls, defaultCalls, applied, registry, served>>

routeVars == <<routeReqs, routeIds, routed>>

raceVars == <<race>>

defaultVars == <<wd>>

stopVars == <<ss>>

hostVars == <<host>>

fileVars == <<fsys>>

deviceVars == <<stopVars, hostVars, fileVars>>

vars == <<keyVars, scopeVars, valVars, routeVars, raceVars, defaultVars, stopVars,
          hostVars, fileVars>>

-----------------------------------------------------------------------------
(***************************************************************************)
(* Bounds of the key store model.                                          *)
(***************************************************************************)
\* keys generateUniqueKey may hand out in one run
MaxKeys == 3
\* application ids range over 0..MaxAppId (0 is the cloud's)
MaxAppId == 1
\* longest scope list a caller passes in options.scopes
MaxScopes == 1

-----------------------------------------------------------------------------
(***************************************************************************)
(* Values.                                                                 *)
(***************************************************************************)
\* serviceName is `string | null`: null and the strings are kept apart
NULL == [null |-> TRUE]
Str(s) == [str |-> s]
\* what a cached lookup of a key that has no row resolves to
Undefined == [undefined |-> TRUE]
\* what getScopesForKey answers: null, or a scope list
NoScopesFound == [known |-> FALSE, scopes |-> <<>>]
ScopesFound(scopes) == [known |-> TRUE, scopes |-> scopes]

AppIds == 0..MaxAppId
ServiceNames == {Str("null")}

\* Scope: {type: 'global'} | {type: 'app', appId}
GlobalScope == [type |-> "global"]
AppScope(a) == [type |-> "app", appId |-> a]
Scopes == {GlobalScope} \cup {AppScope(a) : a \in 1..MaxAppId}

SeqsUpTo(S, n) == UNION {[1..k -> S] : k \in 0..n}
ScopeLists == SeqsUpTo(Scopes, MaxScopes)

\* options.scopes: left out by the caller, or a scope list
NoScopes == [given |-> FALSE, scopes |-> <<>>]
Given(scopes) == [given |-> TRUE, scopes |-> scopes]
\* a secret no call of generateUniqueKey returns
UnknownKey == MaxKeys + 2

-----------------------------------------------------------------------------
(***************************************************************************)
(* Scope model.                                                            *)
(***************************************************************************)
\* resources is Partial<ScopedResources>: apps may be absent
NoApps == [hasApps |-> FALSE, apps |-> {}]
Apps(apps) == [hasApps |-> TRUE, apps |-> apps]

\* a check that takes any app scope to cover any list of apps
scopeChecksAnyApp(res, scope) ==
    IF scope.type = "global" THEN TRUE ELSE res.hasApps

\* scopeChecks[scope.type](resources, scope)
scopeChecks(res, scope) ==
    IF scope.type = "global"
    THEN TRUE
    ELSE res.hasApps /\ scope.appId \in res.apps

\* scopes.some(scope => scopeChecks[scope.type](resources, scope))
isScoped(res, scopes) ==
    \E i \in 1..Len(scopes) : scopeChecks(res, scopes[i])

\* _.isEqual(a, b)
isEqualScope(a, b) == a = b

\* JSON.stringify(scopes): one token list per scope
serialiseScopes(scopes) ==
    [i \in 1..Len(scopes) |->
        IF scopes[i].type = "global"
        THEN <<"type", "global">>
        ELSE <<"type", "app", "appId", ToString(scopes[i].appId)>>]

\* the number a JSON number token stands for
ParseNumber(token) == CHOOSE n \in 0..(MaxAppId + 1) : ToString(n) = token

\* JSON.parse(json)
deserialiseScopes(json) ==
    [i \in 1..Len(json) |->
        IF json[i][2] = "global"
        THEN GlobalScope
        ELSE AppScope(ParseNumber(json[i][4]))]

-----------------------------------------------------------------------------
(***************************************************************************)
(* The memoizee caches.  An entry is [id, value]; ids are unique.          *)
(***************************************************************************)
CacheHas(cache, id) == \E e \in cache : e.id = id
CacheGet(cache, id) == (CHOOSE e \in cache : e.id = id).value
CachePut(cache, id, value) ==
    {e \in cache : e.id # id} \cup {[id |-> id, value |-> value]}

\* a clear that removed only the entry of the arguments it is given
CacheDeleteEntry(cache, id) == {e \in cache : e.id # id}

\* memoized.clear(...): memoizee's clear() takes no arguments and drops every
\* entry of the memoized function (delete(...args) is the per-entry call)
CacheClear(cache, id) == {}

\* `${appId}-${serviceName}`: a template literal prints null as "null"
TemplateString(serviceName) ==
    IF serviceName = NULL THEN "null" ELSE serviceName.str
normalizer(appId, serviceName) ==
    ToString(appId) \o "-" \o TemplateString(serviceName)

\* db.models('apiSecret').where({ appId, serviceName }).select()
SelectWhere(rows, appId, serviceName) ==
    SelectSeq(rows, LAMBDA r : r.appId = appId /\ r.serviceName = serviceName)
\* a delete statement that removes no row
DeleteNone(rows, appId, serviceName) == rows
\* db.models('apiSecret').where({ appId, serviceName }).del()
DeleteWhere(rows, appId, serviceName) ==
    SelectSeq(rows, LAMBDA r : ~(r.appId = appId /\ r.serviceName = serviceName))
\* a select that lost its where clause
SelectAnyKey(rows, key) == rows
\* db.models('apiSecret').where({ key }).select()
SelectByKey(rows, key) == SelectSeq(rows, LAMBDA r : r.key = key)

(***************************************************************************)
(* The key store's operations are operators on a record                    *)
(*   ks = [store, byService, byKey, next, dels, ins, calls, steps]         *)
(* (the table, the two caches, the key generator, counters of the delete   *)
(* statements, insert statements and generateKey invocations of the        *)
(* running call, and the writes of the running call in the order it made   *)
(* them) and return [ks, value].                                           *)
(***************************************************************************)
\* getApiKeyForService(appId, serviceName): cached rows, or select and cache
getApiKeyForService(ks, appId, serviceName) ==
    LET id == normalizer(appId, serviceName) IN
    IF CacheHas(ks.byService, id)
    THEN [ks |-> ks, value |-> CacheGet(ks.byService, id)]
    ELSE LET rows == SelectWhere(ks.store, appId, serviceName) IN
         [ks |-> [ks EXCEPT !.byService = CachePut(@, id, rows)],
          value |-> rows]

\* getApiKeyByKey(key): the cached row, or the first row selected, cached
getApiKeyByKey(ks, key) ==
    IF CacheHas(ks.byKey, key)
    THEN [ks |-> ks, value |-> CacheGet(ks.byKey, key)]
    ELSE LET rows == SelectByKey(ks.store, key)
             apiKey == IF Len(rows) = 0 THEN Undefined ELSE rows[1] IN
         [ks |-> [ks EXCEPT !.byKey = CachePut(@, key, apiKey)],
          value |-> apiKey]

\* createNewKey(appId, serviceName, scopes)
createNewKey(ks, appId, serviceName, scopes) ==
    LET key == ks.next
        row == [appId |-> appId, serviceName |-> serviceName, key |-> key,
                scopes |-> serialiseScopes(scopes)] IN
    [ks |-> [ks EXCEPT !.next = @ + 1,
                       !.store = Append(@, row),
                       !.ins = @ + 1,
                       !.steps = Append(@, "insert")],
     value |-> key]

\* the options defaults of generateKey: scopes: [{ type: 'app', appId }]
DefaultScopes(appId) == <<AppScope(appId)>>
ResolveScopes(appId, scopesOpt) ==
    IF scopesOpt.given THEN scopesOpt.scopes ELSE DefaultScopes(appId)

\* the reuse test of generateKey
HaveCorrectScopes(scopes, currentScopes) ==
    LET scopesWeAlreadyHave ==
            SelectSeq(scopes, LAMBDA desiredScope :
                \E i \in 1..Len(currentScopes) :
                    isEqualScope(desiredScope, currentScopes[i])) IN
    /\ Len(scopes) = Len(currentScopes)
    /\ Len(scopesWeAlreadyHave) = Len(currentScopes)

\* lines 203-205: if (force) { await ...where({ appId, serviceName }).del() }
DeleteIfForced(ks, appId, serviceName, force) ==
    IF force
    THEN [ks EXCEPT !.store = DeleteWhere(@, appId, serviceName),
                    !.dels = @ + 1,
                    !.steps = Append(@, "delete")]
    ELSE ks
\* lines 208-214: the clears of the two memoized lookups
ClearCaches(ks, secrets, appId, serviceName) ==
    LET k2 == IF Len(secrets) > 0
              THEN [ks EXCEPT !.byKey = CacheClear(@, secrets[1].key),
                              !.steps = Append(@, "clearByKey")]
              ELSE ks IN
    [k2 EXCEPT !.byService = CacheClear(@, normalizer(appId, serviceName)),
               !.steps = Append(@, "clearByService")]

\* a new-key branch that inserts the new row before it clears the caches
GenerateNewKeyThenClear(ks, secrets, appId, serviceName, force, scopes) ==
    LET created == createNewKey(DeleteIfForced(ks, appId, serviceName, force),
                                appId, serviceName, scopes) IN
    [created EXCEPT !.ks = ClearCaches(@, secrets, appId, serviceName)]
\* the branch of generateKey that makes a new key
GenerateNewKey(ks, secrets, appId, serviceName, force, scopes) ==
    createNewKey(ClearCaches(DeleteIfForced(ks, appId, serviceName, force),
                             secrets, appId, serviceName),
                 appId, serviceName, scopes)

RECURSIVE generateKey(_, _, _, _, _)
generateKey(ks0, appId, serviceName, force, scopesOpt) ==
    LET scopes == ResolveScopes(appId, scopesOpt)
        got == getApiKeyForService([ks0 EXCEPT !.calls = @ + 1],
                                   appId, serviceName)
        ks == got.ks
        secrets == got.value IN
    IF Len(secrets) = 0 \/ force
    THEN GenerateNewKey(ks, secrets, appId, serviceName, force, scopes)
    ELSE LET currentSecret == secrets[1]
             currentScopes == deserialiseScopes(currentSecret.scopes) IN
         IF HaveCorrectScopes(scopes, currentScopes)
         THEN [ks |-> ks, value |-> currentSecret.key]
         ELSE generateKey(ks, appId, serviceName, TRUE, scopesOpt)

-----------------------------------------------------------------------------
(***************************************************************************)
(* The key store as a state machine.                                       *)
(***************************************************************************)
Ks == [store |-> store, byService |-> cacheByService, byKey |-> cacheByKey,
       next |-> nextKey, dels |-> 0, ins |-> 0, calls |-> 0, steps |-> <<>>]

\* the secrets generateKey returned for a pair so far
ReturnedFor(appId, serviceName) ==
    {t[3] : t \in {u \in returned : u[1] = appId /\ u[2] = serviceName}}

\* what getScopesForKey(key) would answer in the current state
getScopesForKeyNow(key) ==
    LET apiKey == getApiKeyByKey(Ks, key).value IN
    IF apiKey = Undefined
    THEN NoScopesFound
    ELSE ScopesFound(deserialiseScopes(apiKey.scopes))

\* the keys of the rows stored for a pair
StoredKeys(rows, appId, serviceName) ==
    {SelectWhere(rows, appId, serviceName)[i].key :
        i \in 1..Len(SelectWhere(rows, appId, serviceName))}

\* whether a row stored for the pair carries another scope list than `scopes`
StoredScopesDiffer(rows, appId, serviceName, scopes) ==
    \E i \in 1..Len(SelectWhere(rows, appId, serviceName)) :
        deserialiseScopes(SelectWhere(rows, appId, serviceName)[i].scopes) # scopes

NoOp == [op |-> "none", appId |-> 0, serviceName |-> NULL, force |-> FALSE,
         scopes |-> <<>>, key |-> 0, result |-> 0, found |-> NoScopesFound, ok |-> TRUE,
         dels |-> 0, ins |-> 0, calls |-> 0, storeSame |-> TRUE,
         cloudSame |-> TRUE, oldKeys |-> {}, drift |-> FALSE, fresh |-> TRUE,
         repeats |-> FALSE, previous |-> 0, carried |-> FALSE,
         wasCloud |-> FALSE, steps |-> <<>>]

\* the effect of one completed generateKey(appId, serviceName, options) run
\* that call `op` (given `key`, for refreshKey) made
Issue(op, key, r, appId, serviceName, force, scopesOpt, cloud) ==
    LET forced == r.ks.dels > 0 \/ force
        scopes == ResolveScopes(appId, scopesOpt)
        before == ReturnedFor(appId, serviceName) IN
    /\ r.ks.next <= MaxKeys + 1
    /\ store' = r.ks.store
    /\ cacheByService' = r.ks.byService
    /\ cacheByKey' = r.ks.byKey
    /\ nextKey' = r.ks.next
    /\ cloudApiKey' = IF cloud THEN r.value ELSE cloudApiKey
    /\ returned' = returned \cup {<<appId, serviceName, r.value>>}
    /\ retired' = IF forced THEN retired \cup before ELSE retired
    /\ revoked' = IF op = "refreshKey"
                  THEN revoked \cup {[key |-> key, cloud |-> cloud]}
                  ELSE revoked
    /\ lastOp' = [NoOp EXCEPT
            !.op = op, !.appId = appId, !.serviceName = serviceName,
            !.force = force, !.scopes = scopes, !.key = key,
            !.result = r.value,
            !.dels = r.ks.dels, !.ins = r.ks.ins, !.calls = r.ks.calls,
            !.steps = r.ks.steps,
            !.storeSame = (r.ks.store = store),
            !.cloudSame = (cloudApiKey' = cloudApiKey),
            !.oldKeys = StoredKeys(store, appId, serviceName),
            !.drift = StoredScopesDiffer(store, appId, serviceName, scopes),
            !.fresh = (r.value \notin before),
            !.repeats = /\ op \in {"generateScopedKey", "generateCloudKey"}
                        /\ lastOp.op = op
                        /\ lastOp.appId = appId
                        /\ lastOp.serviceName = serviceName
                        /\ lastOp.force = force
                        /\ lastOp.scopes = scopes,
            !.previous = lastOp.result,
            !.carried = (\E i \in 1..Len(store) : store[i].key = key),
            !.wasCloud = (key \in StoredKeys(store, 0, NULL))]

\* a table left by an earlier run of the supervisor holds the cloud key's row
CloudRow(key) == [appId |-> 0, serviceName |-> NULL, key |-> key,
                  scopes |-> serialiseScopes(<<GlobalScope>>)]

KeyInit ==
    /\ store \in {<<>>, <<CloudRow(1)>>}
    /\ nextKey = Len(store) + 1
    /\ cacheByService = {}
    /\ cacheByKey = {}
    /\ cloudApiKey = 0
    /\ inited = FALSE
    /\ lastOp = NoOp
    /\ returned = {}
    /\ retired = {}
    /\ revoked = {}

\* initialized: await db.initialized; await generateCloudKey()
Initialize ==
    /\ ~inited
    /\ inited' = TRUE
    /\ Issue("initialized", 0, generateKey(Ks, 0, NULL, FALSE, Given(<<GlobalScope>>)),
             0, NULL, FALSE, Given(<<GlobalScope>>), TRUE)

\* a generateScopedKey that does not await `initialized`
GenerateScopedKeyUnawaited(appId, serviceName, force, scopesOpt) ==
    /\ Issue("generateScopedKey", 0,
             generateKey(Ks, appId, serviceName, force, scopesOpt),
             appId, serviceName, force, scopesOpt, FALSE)
    /\ UNCHANGED inited

\* generateScopedKey(appId, serviceName, options): the call may be made at any
\* time; what follows `await initialized` runs once the promise has resolved
GenerateScopedKey(appId, serviceName, force, scopesOpt) ==
    /\ inited
    /\ Issue("generateScopedKey", 0,
             generateKey(Ks, appId, serviceName, force, scopesOpt),
             appId, serviceName, force, scopesOpt, FALSE)
    /\ UNCHANGED inited

\* generateCloudKey(force)
GenerateCloudKey(force) ==
    /\ inited
    /\ Issue("generateCloudKey", 0,
             generateKey(Ks, 0, NULL, force, Given(<<GlobalScope>>)),
             0, NULL, force, Given(<<GlobalScope>>), TRUE)
    /\ UNCHANGED inited

\* a refreshKey that re-issues with the default scopes of generateKey
RefreshKeyDefaultScopes(key) ==
    LET got == getApiKeyByKey(Ks, key)
        apiKey == got.value IN
    /\ inited
    /\ IF apiKey = Undefined
       THEN /\ cacheByKey' = got.ks.byKey
            /\ lastOp' = [NoOp EXCEPT
                    !.op = "refreshKey", !.key = key, !.ok = FALSE,
                    !.carried = (\E i \in 1..Len(store) : store[i].key = key),
                    !.wasCloud = (key \in StoredKeys(store, 0, NULL))]
            /\ UNCHANGED <<store, cacheByService, cloudApiKey, nextKey,
                           returned, retired, revoked>>
       ELSE IF apiKey.appId = 0 /\ apiKey.serviceName = NULL
       THEN Issue("refreshKey", key,
                  generateKey(got.ks, 0, NULL, TRUE, Given(<<GlobalScope>>)),
                  0, NULL, TRUE, Given(<<GlobalScope>>), TRUE)
       ELSE Issue("refreshKey", key,
                  generateKey(got.ks, apiKey.appId, apiKey.serviceName, TRUE,
                              NoScopes),
                  apiKey.appId, apiKey.serviceName, TRUE, NoScopes, FALSE)
    /\ UNCHANGED inited

\* refreshKey(key)
RefreshKey(key) ==
    LET got == getApiKeyByKey(Ks, key)
        apiKey == got.value IN
    /\ inited
    /\ IF apiKey = Undefined
       THEN \* throw new KeyNotFoundError()
            /\ cacheByKey' = got.ks.byKey
            /\ lastOp' = [NoOp EXCEPT
                    !.op = "refreshKey", !.key = key, !.ok = FALSE,
                    !.carried = (\E i \in 1..Len(store) : store[i].key = key),
                    !.wasCloud = (key \in StoredKeys(store, 0, NULL))]
            /\ UNCHANGED <<store, cacheByService, cloudApiKey, nextKey,
                           returned, retired, revoked>>
       ELSE IF apiKey.appId = 0 /\ apiKey.serviceName = NULL
       THEN \* generateCloudKey(true)
            Issue("refreshKey", key,
                  generateKey(got.ks, 0, NULL, TRUE, Given(<<GlobalScope>>)),
                  0, NULL, TRUE, Given(<<GlobalScope>>), TRUE)
       ELSE \* generateScopedKey(appId, serviceName, { force: true, scopes })
            Issue("refreshKey", key,
                  generateKey(got.ks, apiKey.appId, apiKey.serviceName, TRUE,
                              Given(deserialiseScopes(apiKey.scopes))),
                  apiKey.appId, apiKey.serviceName, TRUE,
                  Given(deserialiseScopes(apiKey.scopes)), FALSE)
    /\ UNCHANGED inited

\* getScopesForKey(key)
GetScopesForKey(key) ==
    LET got == getApiKeyByKey(Ks, key)
        apiKey == got.value IN
    /\ inited
    /\ cacheByKey' = got.ks.byKey
    /\ lastOp' = [NoOp EXCEPT
            !.op = "getScopesForKey", !.key = key,
            !.found = IF apiKey = Undefined
                      THEN NoScopesFound
                      ELSE ScopesFound(deserialiseScopes(apiKey.scopes))]
    /\ UNCHANGED <<store, cacheByService, cloudApiKey, nextKey, inited,
                   returned, retired, revoked>>

\* maxAge: 60000 - an entry of getApiKeyForService's cache times out
ExpireByService ==
    /\ \E e \in cacheByService : cacheByService' = cacheByService \ {e}
    /\ UNCHANGED <<store, cacheByKey, cloudApiKey, nextKey, inited, lastOp,
                   returned, retired, revoked>>

\* maxAge: 60000 - an entry of getApiKeyByKey's cache times out
ExpireByKey ==
    /\ \E e \in cacheByKey : cacheByKey' = cacheByKey \ {e}
    /\ UNCHANGED <<store, cacheByService, cloudApiKey, nextKey, inited, lastOp,
                   returned, retired, revoked>>

\* the (ownerId, serviceName) pairs a row may be stored for
Pairs == {<<0, NULL>>} \cup (AppIds \X ServiceNames)

\* the secrets a caller may present: those handed out so far and a made-up one
KnownKeys == (1..(nextKey - 1)) \cup {UnknownKey}
\* options.force and options.scopes as a caller may pass them
ScopeOptions == {NoScopes} \cup {Given(scopes) : scopes \in ScopeLists}

KeyNext ==
    \/ Initialize
    \/ \E appId \in AppIds, serviceName \in ServiceNames,
          force \in BOOLEAN, scopesOpt \in ScopeOptions :
            GenerateScopedKey(appId, serviceName, force, scopesOpt)
    \/ \E force \in BOOLEAN : GenerateCloudKey(force)
    \/ \E key \in KnownKeys : RefreshKey(key)
    \/ \E key \in KnownKeys : GetScopesForKey(key)
    \/ ExpireByService
    \/ ExpireByKey

\* the key store at rest, for the specifications that do not run it
KeyIdle ==
    /\ store = <<>>
    /\ nextKey = 1
    /\ cacheByService = {}
    /\ cacheByKey = {}
    /\ cloudApiKey = 0
    /\ inited = FALSE
    /\ lastOp = NoOp
    /\ returned = {}
    /\ retired = {}
    /\ revoked = {}

-----------------------------------------------------------------------------
(***************************************************************************)
(* isScoped applied to bounded resources and scope lists.                  *)
(***************************************************************************)
\* app ids of the scopes and resources isScoped is applied to
ScopedMaxApp == 2
\* longest scope list isScoped is applied to
ScopedMaxLen == 3

ScopedScopes == {GlobalScope} \cup {AppScope(a) : a \in 1..ScopedMaxApp}
ScopedResources ==
    {NoApps} \cup {Apps(apps) : apps \in SUBSET (1..ScopedMaxApp)}

ScopeInit ==
    /\ resources \in ScopedResources
    /\ scopeList \in SeqsUpTo(ScopedScopes, ScopedMaxLen)
    /\ scoped = [done |-> FALSE, value |-> FALSE]

ScopeIdle ==
    /\ resources = NoApps
    /\ scopeList = <<>>
    /\ scoped = [done |-> FALSE, value |-> FALSE]

\* req.auth.isScoped(resources): isScoped(resources, scopes)
CheckScoped ==
    /\ ~scoped.done
    /\ scoped' = [done |-> TRUE, value |-> isScoped(resources, scopeList)]
    /\ UNCHANGED <<resources, scopeList>>

-----------------------------------------------------------------------------
(***************************************************************************)
(* JavaScript values, as the request carries them and the codecs decode    *)
(* them.  A value is [t, v]: t its typeof-like tag, v its content.  A      *)
(* string's content is the sequence of its characters; a number's content  *)
(* is [nan, n, whole]: n the number truncated towards zero and whole       *)
(* whether it is an integer.                                               *)
(***************************************************************************)
JsUndefined == [t |-> "undefined", v |-> 0]
JsNull == [t |-> "null", v |-> 0]
JsBool(b) == [t |-> "boolean", v |-> b]
JsNum(n) == [t |-> "number", v |-> [nan |-> FALSE, n |-> n, whole |-> TRUE]]
\* a number with a fractional part, such as 1.5 for JsFrac(1)
JsFrac(n) == [t |-> "number", v |-> [nan |-> FALSE, n |-> n, whole |-> FALSE]]
JsNaN == [t |-> "number", v |-> [nan |-> TRUE, n |-> 0, whole |-> FALSE]]
JsStr(chars) == [t |-> "string", v |-> chars]
\* a plain object: v maps its keys to values, an absent key to JsUndefined
JsObj(fields) == [t |-> "object", v |-> fields]

Digits == {"0", "1", "2", "3", "4", "5", "6", "7", "8", "9"}
\* [a-zA-Z0-9]
Alnum ==
    Digits
    \cup {"a", "b", "c", "d", "e", "f", "g", "h", "i", "j", "k", "l", "m",
          "n", "o", "p", "q", "r", "s", "t", "u", "v", "w", "x", "y", "z"}
    \cup {"A", "B", "C", "D", "E", "F", "G", "H", "I", "J", "K", "L", "M",
          "N", "O", "P", "Q", "R", "S", "T", "U", "V", "W", "X", "Y", "Z"}

\* the characters of `chars` joined into one string
RECURSIVE Join(_)
Join(chars) == IF chars = <<>> THEN "" ELSE chars[1] \o Join(Tail(chars))

\* the value of a run of decimal digits
RECURSIVE DigitsValue(_)
DigitsValue(chars) ==
    IF chars = <<>> THEN 0
    ELSE 10 * DigitsValue(SubSeq(chars, 1, Len(chars) - 1))
            + (CHOOSE d \in 0..9 : ToString(d) = chars[Len(chars)])

\* the longest prefix of `chars` made of characters of `set`
RECURSIVE PrefixIn(_, _)
PrefixIn(chars, set) ==
    IF chars = <<>> \/ chars[1] \notin set THEN <<>>
    ELSE <<chars[1]>> \o PrefixIn(Tail(chars), set)

\* String.prototype.trim, for the one white space character of the model
RECURSIVE Trim(_)
Trim(chars) ==
    IF chars # <<>> /\ chars[1] = " " THEN Trim(Tail(chars))
    ELSE IF chars # <<>> /\ chars[Len(chars)] = " "
    THEN Trim(SubSeq(chars, 1, Len(chars) - 1))
    ELSE chars

\* a numeric string without its sign, and a number with the string's sign
Unsigned(body) ==
    IF body # <<>> /\ body[1] \in {"-", "+"} THEN Tail(body) ELSE body
Signed(body, number) ==
    IF body # <<>> /\ body[1] = "-" /\ ~number.nan
    THEN [number EXCEPT !.n = 0 - @] ELSE number
\* the number written as the digits `int` followed by `rest`: nothing, or a
\* point and digits; NaN if it is no decimal literal
DecimalLiteral(int, rest) ==
    IF rest = <<>>
    THEN IF int = <<>> THEN JsNaN.v ELSE JsNum(DigitsValue(int)).v
    ELSE IF /\ rest[1] = "."
            /\ \A k \in 2..Len(rest) : rest[k] \in Digits
            /\ (int # <<>> \/ Len(rest) > 1)
    THEN [nan |-> FALSE, n |-> DigitsValue(int),
          whole |-> \A k \in 2..Len(rest) : rest[k] = "0"]
    ELSE JsNaN.v
UnsignedToNumber(unsigned) ==
    DecimalLiteral(PrefixIn(unsigned, Digits),
                   SubSeq(unsigned, Len(PrefixIn(unsigned, Digits)) + 1,
                          Len(unsigned)))

\* parseInt(string, 10): white space, a sign, then the leading digits
ParseIntTrimmed(body) ==
    Signed(body, DecimalLiteral(PrefixIn(Unsigned(body), Digits), <<>>))
ParseInt(chars) == ParseIntTrimmed(Trim(chars))

\* ToNumber of a string (unary +): the trimmed string is empty (0) or a whole
\* decimal literal with an optional sign and fraction; anything else is NaN.
\* (Hex, exponent and Infinity literals are not among the strings used.)
TrimmedToNumber(body) ==
    IF body = <<>> THEN JsNum(0).v
    ELSE Signed(body, UnsignedToNumber(Unsigned(body)))
StringToNumber(chars) == TrimmedToNumber(Trim(chars))

\* +value
ToNumber(value) ==
    CASE value.t = "undefined" -> JsNaN.v
      [] value.t = "null" -> JsNum(0).v
      [] value.t = "boolean" -> IF value.v THEN JsNum(1).v ELSE JsNum(0).v
      [] value.t = "number" -> value.v
      [] value.t = "string" -> StringToNumber(value.v)
      [] OTHER -> JsNaN.v

\* parseInt(String(value), 10) of a number or a string: String(number) prints
\* the integer part first, so parseInt reads the number truncated
ParseIntOfString(value) ==
    CASE value.t = "string" -> ParseInt(value.v)
      [] value.t = "number" ->
            IF value.v.nan THEN JsNaN.v
            ELSE [nan |-> FALSE, n |-> value.v.n, whole |-> TRUE]
      [] OTHER -> JsNaN.v

\* a === b on numbers
NumberEquals(a, b) == ~a.nan /\ ~b.nan /\ a.n = b.n /\ a.whole = b.whole
\* a >= 0, a <= 0 on numbers (a fraction truncated to 0 keeps no sign here)
NumberAtLeastZero(a) == ~a.nan /\ a.n >= 0
NumberAtMostZero(a) == ~a.nan /\ (a.n < 0 \/ (a.n = 0 /\ a.whole))

\* !value
Falsy(value) ==
    \/ value.t \in {"undefined", "null"}
    \/ value.t = "boolean" /\ ~value.v
    \/ value.t = "number" /\ (value.v.nan \/ (value.v.n = 0 /\ value.v.whole))
    \/ value.t = "string" /\ value.v = <<>>

-----------------------------------------------------------------------------
(***************************************************************************)
(* The io-ts codecs of the validation schemas.  A decoding is an Either:   *)
(* right with the decoded value, or left with the list of its errors, each *)
(* error given by its message, NoMessage for an error that carries none.   *)
(***************************************************************************)
NoMessage == ""
Success(value) == [right |-> TRUE, value |-> value, errors |-> <<>>]
Failures(errors) == [right |-> FALSE, value |-> JsUndefined, errors |-> errors]
Failure(message) == Failures(<<message>>)
isRight(decoded) == decoded.right

JsArr(elements) == [t |-> "array", v |-> elements]

\* t.string, t.number, t.boolean, t.null: the value has the type's tag
TPrimitive(tag, i) == IF i.t = tag THEN Success(i) ELSE Failure(NoMessage)

ShortStringMax == 255
\* pipe(validate, chain(...)): a left passes through, a right goes on
ShortString(i) ==
    LET s == TPrimitive("string", i) IN
    IF ~isRight(s) THEN s
    ELSE IF Len(i.v) <= ShortStringMax THEN s
    ELSE Failure("must be at most 255 chars long")

\* !isNaN(+n) && +n === parseInt(String(n), 10) && +n >= 0 ? success(+n)
NumericIdentifier(i) ==
    LET StringOrNumber == IF i.t \in {"number", "string"}
                          THEN Success(i) ELSE Failures(<<NoMessage, NoMessage>>)
        n == ToNumber(i) IN
    IF ~isRight(StringOrNumber) THEN StringOrNumber
    ELSE IF ~n.nan /\ NumberEquals(n, ParseIntOfString(i)) /\ NumberAtLeastZero(n)
    THEN Success([t |-> "number", v |-> n])
    ELSE Failure("must be a positive integer")

\* /^[a-zA-Z0-9][a-zA-Z0-9_\.\-]*$/
DOCKER_NAME_REGEX(chars) ==
    /\ chars # <<>>
    /\ chars[1] \in Alnum
    /\ \A k \in 2..Len(chars) : chars[k] \in Alnum \cup {"_", ".", "-"}
DockerName(i) ==
    LET s == ShortString(i) IN
    IF ~isRight(s) THEN s
    ELSE IF DOCKER_NAME_REGEX(i.v) THEN s
    ELSE Failure("only \"[a-zA-Z0-9][a-zA-Z0-9_.-]\" are allowed")

BooleanFromString(i) ==
    LET s == TPrimitive("string", i) IN
    IF ~isRight(s) THEN s
    ELSE IF i.v \in {<<"t", "r", "u", "e">>, <<"1">>, <<"o", "n">>}
    THEN Success(JsBool(TRUE))
    ELSE IF i.v \in {<<"f", "a", "l", "s", "e">>, <<"0">>, <<"o", "f", "f">>}
    THEN Success(JsBool(FALSE))
    ELSE Failure("must be a valid string boolean")
BooleanFromInt(i) ==
    LET n == TPrimitive("number", i) IN
    IF ~isRight(n) THEN n
    ELSE IF i = JsNum(0) \/ i = JsNum(1) THEN Success(JsBool(i = JsNum(1)))
    ELSE Failure("must be a valid integer boolean")
BooleanIdentifier(i) ==
    LET fromString == BooleanFromString(i)
        fromInt == BooleanFromInt(i) IN
    IF i.t = "boolean" THEN Success(i)
    ELSE IF isRight(fromString) THEN fromString
    ELSE IF isRight(fromInt) THEN fromInt
    ELSE Failure("must be a valid boolean identifier of type boolean, string, or integer")

\* the host-config types.  A proxy object has the keys type, noProxy,
\* local_ip and local_port, a network object the one key proxy; a key holding
\* JsUndefined is an absent key.
RedsocksEnum ==
    {<<"s", "o", "c", "k", "s", "4">>, <<"s", "o", "c", "k", "s", "5">>,
     <<"h", "t", "t", "p", "-", "c", "o", "n", "n", "e", "c", "t">>,
     <<"h", "t", "t", "p", "-", "r", "e", "l", "a", "y">>}
\* fromEnum's body is not among the sources: it is modelled from this call,
\* a codec of the enum's values whose failure carries the message built by
\* the function passed to it
RedsocksTypes(i) ==
    IF i.t = "string" /\ i.v \in RedsocksEnum THEN Success(i)
    ELSE Failure("Invalid redsocks proxy type, must be one of socks4, socks5, http-connect, http-relay")
NoProxyArray(i) ==
    IF i.t = "array" /\ \A k \in 1..Len(i.v) : i.v[k].t = "string"
    THEN Success(i)
    ELSE Failure("noProxy field must be an array of addresses")
\* t.partial: a key's errors count only if the key is present
PartialErrors(decoded, ak) ==
    IF isRight(decoded) \/ ak = JsUndefined THEN <<>> ELSE decoded.errors
HostConfigProxyT(i) ==
    IF i.t # "object" THEN Failure(NoMessage)
    ELSE LET errors == PartialErrors(RedsocksTypes(i.v.type), i.v.type)
                       \o PartialErrors(NoProxyArray(i.v.noProxy), i.v.noProxy) IN
         IF errors # <<>> THEN Failures(errors) ELSE Success(i)
disallowedHostConfigPatchFields == <<"local_ip", "local_port">>
HostConfigProxy(i) ==
    LET obj == HostConfigProxyT(i)
        blacklistedFields ==
            SelectSeq(disallowedHostConfigPatchFields,
                      LAMBDA key : i.v[key] # JsUndefined) IN
    IF ~isRight(obj) THEN obj
    ELSE IF Len(blacklistedFields) > 0
    THEN Failure("Invalid proxy field(s): "
                 \o blacklistedFields[1]
                 \o (IF Len(blacklistedFields) > 1
                     THEN ", " \o blacklistedFields[2] ELSE ""))
    ELSE obj
HostConfig(i) ==
    IF i.t # "object" THEN Failure(NoMessage)
    ELSE LET errors == PartialErrors(HostConfigProxy(i.v.proxy), i.v.proxy) IN
         IF errors # <<>> THEN Failures(errors) ELSE Success(i)

\* t.union([t.number, t.null]), t.union([t.string, t.null]): a left carries
\* one error of each member
NullOr(tag, i) ==
    IF i.t \in {tag, "null"} THEN Success(i) ELSE Failures(<<NoMessage, NoMessage>>)

\* type.validate by the codec's name
Validate(type, i) ==
    CASE type = "NumericIdentifier" -> NumericIdentifier(i)
      [] type = "BooleanIdentifier" -> BooleanIdentifier(i)
      [] type = "DockerName" -> DockerName(i)
      [] type = "HostConfig" -> HostConfig(i)
      [] type = "boolean" -> TPrimitive("boolean", i)
      [] type = "string" -> TPrimitive("string", i)
      [] type = "number|null" -> NullOr("number", i)
      [] type = "string|null" -> NullOr("string", i)

\* shouldDefault by the schema's choice; "throws" is val.toString() on a null
isNullOrUndefined(val) == val.t \in {"undefined", "null"}
NotPositiveInteger(val) ==
    LET n == ToNumber(val) IN
    n.nan \/ ~NumberEquals(n, ParseIntOfString(val)) \/ NumberAtMostZero(n)
ShouldDefaultThrows(shouldDefault, val) ==
    shouldDefault = "notPositiveInteger" /\ val.t = "null"
ShouldDefault(shouldDefault, val) ==
    CASE shouldDefault = "notTrue" -> val # JsBool(TRUE)
      [] shouldDefault = "notPositiveInteger" -> NotPositiveInteger(val)
      [] OTHER -> isNullOrUndefined(val)
\* a decoder that takes the default only for an input the codec rejects
withDefaultAfterFailure(type, defaultValue, shouldDefault, v) ==
    IF isRight(Validate(type, v)) THEN Validate(type, v)
    ELSE Validate(type, defaultValue)
\* withDefault(type, defaultValue, shouldDefault).validate
withDefault(type, defaultValue, shouldDefault, v) ==
    Validate(type, IF ShouldDefault(shouldDefault, v) THEN defaultValue ELSE v)

-----------------------------------------------------------------------------
(***************************************************************************)
(* Route keys.  A request path is the sequence of its characters, so that  *)
(* appIdRegex is matched character by character.                           *)
(***************************************************************************)
Min(set) == CHOOSE m \in set : \A n \in set : m <= n

\* (?<=\/v[1-2]\/(?:apps|applications)\/): what must end just before the match
appIdRegexLookbehind ==
    {"/v1/apps/", "/v2/apps/", "/v1/applications/", "/v2/applications/"}
\* (the alternatives are 9 and 17 characters long)
LookbehindAt(path, i) ==
    \E n \in {9, 17} :
        i > n /\ Join(SubSeq(path, i - n, i - 1)) \in appIdRegexLookbehind
\* a narrower class than the regex's: ([0-9]+)
appIdCharsDigits == Digits
\* the characters ([a-zA-Z0-9]+) is made of
appIdChars == Alnum
\* path.match(appIdRegex): the leftmost position the regex matches at, and
\* the longest run of identifier characters from there
appIdRegexMatch(path) ==
    LET starts == {i \in 1..Len(path) :
                      path[i] \in appIdChars /\ LookbehindAt(path, i)} IN
    IF starts = {} THEN [matched |-> FALSE, index |-> 0, group |-> <<>>]
    ELSE LET index == Min(starts) IN
         [matched |-> TRUE, index |-> index,
          group |-> PrefixIn(SubSeq(path, index, Len(path)), appIdChars)]

\* the route key `${req.method} ${path}` and the request with params.appId
\* set to the matched identifier, for the result `match` of path.match
RouteWith(request, match) ==
    IF match.matched
    THEN [methodAndPath |->
              request.method \o " "
                \o Join(SubSeq(request.path, 1, match.index - 1)) \o ":appId"
                \o Join(SubSeq(request.path, match.index + Len(match.group),
                               Len(request.path))),
          req |-> [request EXCEPT !.params.appId = JsStr(match.group)]]
    ELSE [methodAndPath |-> request.method \o " " \o Join(request.path),
          req |-> request]
getRouteMethodAndPath(request) ==
    CHOOSE route \in {RouteWith(request, match) :
                        match \in {appIdRegexMatch(request.path)}} : TRUE

\* path.includes(text), text given by its characters
Includes(path, text) ==
    \E a \in 1..(Len(path) - Len(text) + 1) :
        SubSeq(path, a, a + Len(text) - 1) = text

-----------------------------------------------------------------------------
(***************************************************************************)
(* The input validation schemas.  A schema is a record; its functions      *)
(* (getErrorCode, getMessage, getDefault, shouldDefault) are named by a    *)
(* string and applied by the operators of the same name below.  A check of *)
(* a route is [oneOf, schemas]: one schema, or the alternatives of a oneOf *)
(* group.                                                                  *)
(***************************************************************************)
RequiredSchema(name, location, type, errorCode, message) ==
    [name |-> name, location |-> location, type |-> type, self |-> "required",
     warn |-> FALSE, errorCode |-> errorCode, message |-> message,
     default |-> "none", shouldDefault |-> "none"]
OptionalSchema(name, type, warn, message, default, shouldDefault) ==
    [name |-> name, location |-> "body", type |-> type, self |-> "optional",
     warn |-> warn, errorCode |-> "none", message |-> message,
     default |-> default, shouldDefault |-> shouldDefault]
Single(schema) == [oneOf |-> FALSE, schemas |-> <<schema>>]
OneOf(schemas) == [oneOf |-> TRUE, schemas |-> schemas]

appIdSchema == RequiredSchema("appId", "params", "NumericIdentifier", "400", "appId")
forceSchema ==
    OptionalSchema("force", "BooleanIdentifier", FALSE, "none", "lockOverride", "notTrue")
serviceNameOrImageIdSchema ==
    OneOf(<<RequiredSchema("imageId", "body", "NumericIdentifier",
                           "serviceOrImage", "serviceOrImage"),
            RequiredSchema("serviceName", "body", "DockerName",
                           "serviceOrImage", "serviceOrImage")>>)
NoSchema == [found |-> FALSE, required |-> <<>>, optional |-> <<>>]
RouteSchema(required, optional) ==
    [found |-> TRUE, required |-> required, optional |-> optional]
\* inputValidationSchema[methodAndPath], NoSchema where it is undefined
inputValidationSchema(key) ==
    LET containerIdSchema ==
            OneOf(<<RequiredSchema("serviceName", "query", "DockerName", "503",
                                   "serviceNameNotFound"),
                    RequiredSchema("service", "query", "DockerName", "503",
                                   "serviceNameNotFound")>>)
        networkSchema ==
            OptionalSchema("network", "HostConfig", TRUE, "network", "none", "none")
        journalSchemas ==
            <<Single(OptionalSchema("all", "boolean", FALSE, "none", "false", "notTrue")),
              Single(OptionalSchema("follow", "boolean", FALSE, "none", "false", "notTrue")),
              Single(OptionalSchema("count", "number|null", FALSE, "none", "null",
                                    "notPositiveInteger")),
              Single(OptionalSchema("unit", "string|null", FALSE, "none", "null", "default")),
              Single(OptionalSchema("format", "string", FALSE, "none", "short", "default")),
              Single(OptionalSchema("containerId", "string|null", FALSE, "none", "null",
                                    "default"))>>
        AppIdAndForce == RouteSchema(<<Single(appIdSchema)>>, <<Single(forceSchema)>>)
        ForceOnly == RouteSchema(<<>>, <<Single(forceSchema)>>)
        AppIdServiceAndForce ==
            RouteSchema(<<Single(appIdSchema), serviceNameOrImageIdSchema>>,
                        <<Single(forceSchema)>>)
    IN
    CASE key = "POST /v1/restart" ->
            RouteSchema(<<Single([appIdSchema EXCEPT !.location = "body"])>>,
                        <<Single(forceSchema)>>)
      [] key = "POST /v1/apps/:appId/stop" -> AppIdAndForce
      [] key = "POST /v1/apps/:appId/start" -> AppIdAndForce
      [] key = "POST /v1/reboot" -> ForceOnly
      [] key = "POST /v1/shutdown" -> ForceOnly
      [] key = "GET /v1/apps/:appId" ->
            RouteSchema(<<Single(appIdSchema)>>, <<>>)
      [] key = "POST /v1/purge" ->
            RouteSchema(<<Single([appIdSchema EXCEPT !.location = "body",
                                                     !.message = "purge"])>>,
                        <<Single(forceSchema)>>)
      [] key = "POST /v1/update" -> ForceOnly
      [] key = "PATCH /v1/device/host-config" ->
            RouteSchema(<<>>, <<Single(networkSchema)>>)
      [] key = "POST /v2/applications/:appId/purge" -> AppIdAndForce
      [] key = "POST /v2/applications/:appId/restart-service" ->
            AppIdServiceAndForce
      [] key = "POST /v2/applications/:appId/stop-service" ->
            AppIdServiceAndForce
      [] key = "POST /v2/applications/:appId/start-service" ->
            AppIdServiceAndForce
      [] key = "POST /v2/applications/:appId/restart" -> AppIdAndForce
      [] key = "GET /v2/applications/:appId/state" ->
            RouteSchema(<<Single([appIdSchema EXCEPT !.message = "state"])>>, <<>>)
      [] key = "POST /v2/local/target-state" -> ForceOnly
      [] key = "GET /v2/containerId" ->
            RouteSchema(<<containerIdSchema>>, <<>>)
      [] key = "POST /v2/journal-logs" -> RouteSchema(<<>>, journalSchemas)
      [] OTHER -> NoSchema

\* the keys of inputValidationSchema and the object as the module builds it
RouteKeys ==
    {"POST /v1/restart", "POST /v1/apps/:appId/stop", "POST /v1/apps/:appId/start",
     "POST /v1/reboot", "POST /v1/shutdown", "GET /v1/apps/:appId", "POST /v1/purge",
     "POST /v1/update", "PATCH /v1/device/host-config",
     "POST /v2/applications/:appId/purge",
     "POST /v2/applications/:appId/restart-service",
     "POST /v2/applications/:appId/stop-service",
     "POST /v2/applications/:appId/start-service",
     "POST /v2/applications/:appId/restart", "GET /v2/applications/:appId/state",
     "POST /v2/local/target-state", "GET /v2/containerId", "POST /v2/journal-logs"}
InitialRegistry == [key \in RouteKeys |-> inputValidationSchema(key)]
\* object[key], NoSchema where it is undefined
Lookup(object, key) == IF key \in DOMAIN object THEN object[key] ELSE NoSchema

\* a response body: a string, or the JSON { status: 'failed', message }
Text(message) == [json |-> FALSE, message |-> message]
FailedJson(message) == [json |-> TRUE, message |-> message]
\* String(value) inside a template string
TemplateValue(value) ==
    CASE value.t = "string" -> Join(value.v)
      [] value.t = "number" /\ value.v.whole -> ToString(value.v.n)
      [] OTHER -> value.t

StatusBadRequest == 400
StatusNotFound == 404
StatusMissingServiceOrImage == 523
StatusServiceUnavailable == 503
StatusOk == 200
\* the status of an authorization error
StatusUnauthorized == 401
getInvalidServiceOrImageErrorCode(request) ==
    IF Falsy(request.body.imageId) /\ Falsy(request.body.serviceName)
    THEN StatusMissingServiceOrImage ELSE StatusNotFound
getInvalidServiceOrImageMessage(request) ==
    IF Falsy(request.body.imageId) /\ Falsy(request.body.serviceName)
    THEN FailedJson("messages.v2ServiceEndpointInputErrorMessage")
    ELSE Text("messages.serviceNotFoundMessage")
\* schema.getErrorCode(req)
getErrorCode(schema, request) ==
    CASE schema.errorCode = "400" -> StatusBadRequest
      [] schema.errorCode = "503" -> StatusServiceUnavailable
      [] schema.errorCode = "serviceOrImage" -> getInvalidServiceOrImageErrorCode(request)
\* schema.getMessage(req)
getMessage(schema, request) ==
    CASE schema.message = "appId" ->
            IF Includes(request.path, <<"v", "1">>)
            THEN Text("messages.missingAppIdInputErrorMessage")
            ELSE FailedJson("messages.missingAppIdInputErrorMessage")
      [] schema.message = "purge" -> Text("Invalid or missing appId")
      [] schema.message = "state" ->
            FailedJson("Invalid application ID: " \o TemplateValue(request.params.appId))
      [] schema.message = "serviceOrImage" -> getInvalidServiceOrImageMessage(request)
      [] schema.message = "serviceNameNotFound" ->
            FailedJson("messages.serviceNameNotFoundMessage")
      [] schema.message = "network" ->
            Text("Key 'network' must exist in PATCH body")
\* what schema.getDefault() resolves to
getDefault(schema, lockOverrideValue) ==
    CASE schema.default = "lockOverride" -> JsBool(lockOverrideValue)
      [] schema.default = "false" -> JsBool(FALSE)
      [] schema.default = "null" -> JsNull
      [] schema.default = "short" -> JsStr(<<"s", "h", "o", "r", "t">>)
hasGetDefault(schema) == schema.self = "optional" /\ schema.default # "none"

-----------------------------------------------------------------------------
(***************************************************************************)
(* The middleware's functions.                                             *)
(***************************************************************************)
\* getDecodedInput: [throws, decoded, schema]; throws is the rejection of
\* its promise when shouldDefault raises a TypeError
getDecodedInput(request, schema, lockOverrideValue) ==
    LET input == request[schema.location][schema.name] IN
    IF hasGetDefault(schema)
    THEN IF ShouldDefaultThrows(schema.shouldDefault, input)
         THEN [throws |-> TRUE, decoded |-> Failures(<<>>), schema |-> schema]
         ELSE [throws |-> FALSE,
               decoded |-> withDefault(schema.type,
                                       getDefault(schema, lockOverrideValue),
                                       schema.shouldDefault, input),
               schema |-> schema]
    ELSE [throws |-> FALSE, decoded |-> Validate(schema.type, input),
          schema |-> schema]

\* the loop of getFirstValidSchema from alternative i on
RECURSIVE FirstValidFrom(_, _, _, _, _)
FirstValidFrom(request, schemas, i, firstLeft, lockOverrideValue) ==
    IF i > Len(schemas) THEN firstLeft
    ELSE LET di == getDecodedInput(request, schemas[i], lockOverrideValue) IN
         IF di.throws \/ isRight(di.decoded) THEN di
         ELSE FirstValidFrom(request, schemas, i + 1,
                             IF i = 1 THEN di ELSE firstLeft, lockOverrideValue)
\* a resolution that prefers the last alternative: the last right, else the
\* last left
getLastValidSchema(request, schemas, lockOverrideValue) ==
    LET dis == [i \in 1..Len(schemas) |->
                   getDecodedInput(request, schemas[i], lockOverrideValue)]
        rights == {i \in 1..Len(schemas) : isRight(dis[i].decoded)} IN
    IF rights # {} THEN dis[CHOOSE i \in rights : \A j \in rights : j <= i]
    ELSE dis[Len(schemas)]
getFirstValidSchema(request, schemas, lockOverrideValue) ==
    FirstValidFrom(request, schemas, 1,
                   getDecodedInput(request, schemas[1], lockOverrideValue),
                   lockOverrideValue)

\* what the promise getDecodedFromSchemas makes for one check settles to
DecodeCheck(request, check, lockOverrideValue) ==
    IF check.oneOf
    THEN getFirstValidSchema(request, check.schemas, lockOverrideValue)
    ELSE getDecodedInput(request, check.schemas[1], lockOverrideValue)

\* the names of the schemas whose getDefault() the map of
\* getDecodedFromSchemas calls, in call order
RECURSIVE DefaultsCalled(_)
DefaultsCalled(list) ==
    IF list = <<>> THEN <<>>
    ELSE (IF ~list[1].oneOf /\ hasGetDefault(list[1].schemas[1])
          THEN <<list[1].schemas[1].name>> ELSE <<>>)
         \o DefaultsCalled(Tail(list))

\* the distinct messages of a left's errors, in order of first appearance
RECURSIVE getMessagesFromLefts(_)
getMessagesFromLefts(errors) ==
    IF errors = <<>> THEN <<>>
    ELSE LET msgs == getMessagesFromLefts(SubSeq(errors, 1, Len(errors) - 1))
             message == errors[Len(errors)] IN
         IF message # NoMessage /\ \A k \in 1..Len(msgs) : msgs[k] # message
         THEN Append(msgs, message) ELSE msgs
\* The response and what the handler has done to it: st is
\* [res, warned, applied], res the response with its locals, warned the
\* arguments of the warnFn calls, applied the checks handled so far.
FreshResponse(localNames) ==
    [statusCode |-> StatusOk, body |-> Text(""), writableEnded |-> FALSE,
     sends |-> 0, locals |-> [n \in localNames |-> JsUndefined]]
\* res.status(code).send(body)
Send(resp, code, body) ==
    [resp EXCEPT !.statusCode = code, !.body = body,
                     !.writableEnded = TRUE, !.sends = @ + 1]

handleRight(st, schema, decoded) ==
    [st EXCEPT !.res.locals[schema.name] = decoded.value]

\* a warn branch that logs the schema's static message whenever there is
\* one, whatever the failure carries
handleLeftStaticMessage(request, st, schema, decoded) ==
    IF schema.warn
    THEN LET fromLefts == getMessagesFromLefts(decoded.errors)
             schemaWarnMessage == getMessage(schema, request).message
             warnMessages ==
                 IF schema.message # "none" /\ schemaWarnMessage # ""
                 THEN <<schemaWarnMessage>>
                 ELSE fromLefts IN
         [st EXCEPT !.warned = @ \o warnMessages]
    ELSE IF schema.self = "required"
    THEN [st EXCEPT !.res = Send(@, getErrorCode(schema, request),
                                 getMessage(schema, request))]
    ELSE st
\* an optional branch that rejects like a required one
handleLeftRejectsOptional(request, st, schema, decoded) ==
    IF schema.warn
    THEN LET fromLefts == getMessagesFromLefts(decoded.errors)
             schemaWarnMessage == getMessage(schema, request).message
             warnMessages ==
                 IF fromLefts = <<>> /\ schema.message # "none"
                    /\ schemaWarnMessage # ""
                 THEN <<schemaWarnMessage>>
                 ELSE fromLefts IN
         [st EXCEPT !.warned = @ \o warnMessages]
    ELSE [st EXCEPT !.res = Send(@, StatusBadRequest, Text("Bad Request"))]
handleLeft(request, st, schema, decoded) ==
    IF schema.warn
    THEN LET fromLefts == getMessagesFromLefts(decoded.errors)
             schemaWarnMessage == getMessage(schema, request).message
             warnMessages ==
                 IF fromLefts = <<>> /\ schema.message # "none"
                    /\ schemaWarnMessage # ""
                 THEN <<schemaWarnMessage>>
                 ELSE fromLefts IN
         [st EXCEPT !.warned = @ \o warnMessages]
    ELSE IF schema.self = "required"
    THEN [st EXCEPT !.res = Send(@, getErrorCode(schema, request),
                                 getMessage(schema, request))]
    ELSE st

\* a loop that goes on after a response has been sent
RECURSIVE ApplyDecodedAll(_, _, _, _)
ApplyDecodedAll(request, inputs, k, st) ==
    IF k > Len(inputs) THEN st
    ELSE LET handled ==
                 IF isRight(inputs[k].decoded)
                 THEN handleRight(st, inputs[k].schema, inputs[k].decoded)
                 ELSE handleLeft(request, st, inputs[k].schema, inputs[k].decoded) IN
         ApplyDecodedAll(request, inputs, k + 1,
                         [handled EXCEPT !.applied = Append(@, k)])

\* a loop that handles the results of the required checks in the order their
\* promises settled
RECURSIVE ApplyDecodedAsSettled(_, _, _, _)
ApplyDecodedAsSettled(request, inputs, k, st) ==
    IF k > Len(inputs) THEN st
    ELSE LET n == IF inputs[k].order = 0 THEN k
                  ELSE CHOOSE j \in 1..Len(inputs) : inputs[j].order = k
             handled ==
                 IF isRight(inputs[n].decoded)
                 THEN handleRight(st, inputs[n].schema, inputs[n].decoded)
                 ELSE handleLeft(request, st, inputs[n].schema, inputs[n].decoded)
             after == [handled EXCEPT !.applied = Append(@, n)] IN
         IF after.res.writableEnded THEN after
         ELSE ApplyDecodedAsSettled(request, inputs, k + 1, after)

\* the loop of inputValidator over decodedInputs from entry k on
RECURSIVE ApplyDecoded(_, _, _, _)
ApplyDecoded(request, inputs, k, st) ==
    IF k > Len(inputs) THEN st
    ELSE LET handled ==
                 IF isRight(inputs[k].decoded)
                 THEN handleRight(st, inputs[k].schema, inputs[k].decoded)
                 ELSE handleLeft(request, st, inputs[k].schema, inputs[k].decoded)
             after == [handled EXCEPT !.applied = Append(@, k)] IN
         IF after.res.writableEnded THEN after
         ELSE ApplyDecoded(request, inputs, k + 1, after)

-----------------------------------------------------------------------------
(***************************************************************************)
(* The requests the validator is run on: every registered route and one    *)
(* unregistered route, with sample values for the fields its schema reads. *)
(***************************************************************************)
\* the paths of the routes character by character: the registered routes
\* (an identifier segment goes between a prefix and a suffix) and /v1/healthy,
\* which has no schema
Paths ==
    [pathV1Restart |-> <<"/", "v", "1", "/", "r", "e", "s", "t", "a", "r",
              "t">>,
     pathV1Purge |-> <<"/", "v", "1", "/", "p", "u", "r", "g", "e">>,
     pathV1Reboot |-> <<"/", "v", "1", "/", "r", "e", "b", "o", "o", "t">>,
     pathV1Shutdown |-> <<"/", "v", "1", "/", "s", "h", "u", "t", "d", "o",
              "w", "n">>,
     pathV1Update |-> <<"/", "v", "1", "/", "u", "p", "d", "a", "t", "e">>,
     pathV1HostConfig |-> <<"/", "v", "1", "/", "d", "e", "v", "i", "c", "e",
              "/", "h", "o", "s", "t", "-", "c", "o", "n", "f", "i", "g">>,
     pathV2TargetState |-> <<"/", "v", "2", "/", "l", "o", "c", "a", "l",
              "/", "t", "a", "r", "g", "e", "t", "-", "s", "t", "a", "t",
              "e">>,
     pathV2ContainerId |-> <<"/", "v", "2", "/", "c", "o", "n", "t", "a",
              "i", "n", "e", "r", "I", "d">>,
     pathV2JournalLogs |-> <<"/", "v", "2", "/", "j", "o", "u", "r", "n",
              "a", "l", "-", "l", "o", "g", "s">>,
     pathV1Healthy |-> <<"/", "v", "1", "/", "h", "e", "a", "l", "t", "h",
              "y">>,
     prefixV1Apps |-> <<"/", "v", "1", "/", "a", "p", "p", "s", "/">>,
     prefixV2Applications |-> <<"/", "v", "2", "/", "a", "p", "p", "l", "i",
              "c", "a", "t", "i", "o", "n", "s", "/">>,
     suffixStop |-> <<"/", "s", "t", "o", "p">>,
     suffixStart |-> <<"/", "s", "t", "a", "r", "t">>,
     suffixPurge |-> <<"/", "p", "u", "r", "g", "e">>,
     suffixRestart |-> <<"/", "r", "e", "s", "t", "a", "r", "t">>,
     suffixState |-> <<"/", "s", "t", "a", "t", "e">>,
     suffixRestartService |-> <<"/", "r", "e", "s", "t", "a", "r", "t", "-",
              "s", "e", "r", "v", "i", "c", "e">>,
     suffixStopService |-> <<"/", "s", "t", "o", "p", "-", "s", "e", "r",
              "v", "i", "c", "e">>,
     suffixStartService |-> <<"/", "s", "t", "a", "r", "t", "-", "s", "e",
              "r", "v", "i", "c", "e">>]

BodyFields == {"appId", "force", "imageId", "serviceName", "network", "all",
               "follow", "count", "unit", "format", "containerId"}
QueryFields == {"serviceName", "service"}
LocalNames == BodyFields \cup QueryFields
EmptyBody == [f \in BodyFields |-> JsUndefined]
EmptyQuery == [f \in QueryFields |-> JsUndefined]
Request(method, path, body, query) ==
    [method |-> method, path |-> path, params |-> [appId |-> JsUndefined],
     body |-> body, query |-> query]

ValRequests ==
    LET \* identifier segments of a path: numeric, alphabetic, containing
        \* 'v1', with a character outside [a-zA-Z0-9], empty
        IdSegments == {<<"7">>, <<"x">>, <<"v", "1">>, <<"1", "-", "2">>, <<>>}
        NumericIdentifierInputs ==
            {JsUndefined, JsNull, JsBool(TRUE), JsNum(7), JsNum(0), JsNum(0 - 1),
             JsFrac(1), JsStr(<<"7">>), JsStr(<<"x">>), JsStr(<<>>)}
        ForceInputs == {JsUndefined, JsBool(TRUE), JsBool(FALSE), JsStr(<<"o", "n">>)}
        ImageIdInputs == {JsUndefined, JsNum(7), JsNum(0), JsStr(<<"x">>)}
        ServiceNameInputs == {JsUndefined, JsStr(<<"m">>), JsStr(<<"-">>), JsStr(<<>>)}
        ProxyKeys == {"type", "noProxy", "local_ip", "local_port"}
        Proxy(type, noProxy, localIp) ==
            JsObj([k \in ProxyKeys |->
                      CASE k = "type" -> type
                        [] k = "noProxy" -> noProxy
                        [] k = "local_ip" -> localIp
                        [] OTHER -> JsUndefined])
        ProxyInputs ==
            {JsUndefined, JsStr(<<"x">>)}
            \cup {Proxy(type, noProxy, localIp) :
                    type \in {JsUndefined, JsStr(<<"s", "o", "c", "k", "s", "5">>),
                              JsStr(<<"x">>)},
                    noProxy \in {JsUndefined, JsArr(<<JsStr(<<"a">>)>>), JsStr(<<"a">>)},
                    localIp \in {JsUndefined, JsStr(<<"1">>)}}
        NetworkInputs ==
            {JsUndefined, JsStr(<<"x">>)}
            \cup {JsObj([proxy |-> p]) : p \in ProxyInputs}
        AppIdForceRoutes ==
            {<<Paths.prefixV1Apps, Paths.suffixStop>>,
             <<Paths.prefixV1Apps, Paths.suffixStart>>,
             <<Paths.prefixV2Applications, Paths.suffixPurge>>,
             <<Paths.prefixV2Applications, Paths.suffixRestart>>}
        ServiceRoutes ==
            {<<Paths.prefixV2Applications, Paths.suffixRestartService>>,
             <<Paths.prefixV2Applications, Paths.suffixStopService>>,
             <<Paths.prefixV2Applications, Paths.suffixStartService>>}
    IN
    {Request("POST", path, [EmptyBody EXCEPT !.appId = a, !.force = f], EmptyQuery) :
        path \in {Paths.pathV1Restart, Paths.pathV1Purge},
        a \in NumericIdentifierInputs, f \in ForceInputs}
    \cup {Request("POST", r[1] \o id \o r[2], [EmptyBody EXCEPT !.force = f],
                  EmptyQuery) :
            r \in AppIdForceRoutes, id \in IdSegments, f \in ForceInputs}
    \cup {Request("GET", r[1] \o id \o r[2], EmptyBody, EmptyQuery) :
            r \in {<<Paths.prefixV1Apps, <<>> >>,
                   <<Paths.prefixV2Applications, Paths.suffixState>>},
            id \in IdSegments}
    \cup {Request("POST", r[1] \o id \o r[2],
                  [EmptyBody EXCEPT !.imageId = i, !.serviceName = n, !.force = f],
                  EmptyQuery) :
            r \in ServiceRoutes, id \in {<<"7">>, <<"x">>},
            i \in ImageIdInputs, n \in ServiceNameInputs,
            f \in {JsUndefined, JsBool(TRUE)}}
    \cup {Request("POST", path, [EmptyBody EXCEPT !.force = f], EmptyQuery) :
            path \in {Paths.pathV1Reboot, Paths.pathV1Shutdown, Paths.pathV1Update, Paths.pathV2TargetState},
            f \in ForceInputs}
    \cup {Request("PATCH", Paths.pathV1HostConfig, [EmptyBody EXCEPT !.network = n],
                  EmptyQuery) : n \in NetworkInputs}
    \cup {Request("GET", Paths.pathV2ContainerId, EmptyBody,
                  [serviceName |-> n, service |-> m]) :
            n \in ServiceNameInputs, m \in ServiceNameInputs}
    \cup {Request("POST", Paths.pathV2JournalLogs,
                  [EmptyBody EXCEPT !.all = a, !.follow = f, !.count = c,
                                    !.unit = u, !.format = fmt, !.containerId = cid],
                  EmptyQuery) :
            a \in {JsUndefined, JsBool(TRUE)},
            f \in {JsUndefined, JsBool(FALSE)},
            c \in {JsUndefined, JsNull, JsNum(5), JsNum(0), JsStr(<<"5">>)},
            u \in {JsUndefined, JsStr(<<"u">>), JsNum(5)},
            fmt \in {JsUndefined, JsNum(5)},
            cid \in {JsUndefined, JsNull}}
    \cup {Request(method, Paths.pathV1Healthy, EmptyBody, EmptyQuery) :
            method \in {"GET", "POST"}}

-----------------------------------------------------------------------------
(***************************************************************************)
(* inputValidator on one request.  The handler runs in three kinds of step *)
(* separated by its awaits: Receive, up to the await of Promise.all;       *)
(* Settle(k), the promise of check k settling; Respond, the continuation   *)
(* after Promise.all.                                                      *)
(***************************************************************************)
Unsettled(check) ==
    [settled |-> FALSE, order |-> 0, decoded |-> Failures(<<>>),
     schema |-> check.schemas[1]]
\* how many of the promises of required checks have settled
Settled(inputs) == Cardinality({j \in 1..Len(inputs) : inputs[j].order > 0})

\* the keys a caller may present: global, scoped to the application some
\* requests name, scoped to another application
AuthScopes == {<<GlobalScope>>, <<AppScope(7)>>, <<AppScope(1)>>}

ValInit ==
    /\ req \in ValRequests
    /\ auth \in AuthScopes
    /\ lockOverride \in BOOLEAN
    /\ valPc = "received"
    /\ methodAndPath = ""
    /\ checks = <<>>
    /\ decodedInputs = <<>>
    /\ response = FreshResponse(LocalNames)
    /\ warned = <<>>
    /\ nextCalls = 0
    /\ defaultCalls = <<>>
    /\ applied = <<>>
    /\ registry = InitialRegistry
    /\ served = 0

ValIdle ==
    /\ req = Request("GET", Paths.pathV1Healthy, EmptyBody, EmptyQuery)
    /\ auth = <<>>
    /\ lockOverride = FALSE
    /\ valPc = "done"
    /\ methodAndPath = ""
    /\ checks = <<>>
    /\ decodedInputs = <<>>
    /\ response = FreshResponse(LocalNames)
    /\ warned = <<>>
    /\ nextCalls = 0
    /\ defaultCalls = <<>>
    /\ applied = <<>>
    /\ registry = InitialRegistry
    /\ served = 0

\* a return that forgets to call next()
PassThroughUnanswered ==
    /\ valPc' = "done"
    /\ UNCHANGED <<nextCalls, checks, decodedInputs, defaultCalls>>
\* Lines 487-489: if (!validationSchema) { return next(); }
PassThrough ==
    /\ nextCalls' = nextCalls + 1
    /\ valPc' = "done"
    /\ UNCHANGED <<checks, decodedInputs, defaultCalls>>

\* a Receive that builds the check list in place, with
\* validationSchema.required.push(...validationSchema.optional)
ReceivePushing ==
    /\ valPc = "received"
    /\ \E route \in {getRouteMethodAndPath(req)} :
       \E validationSchema \in {Lookup(registry, route.methodAndPath)} :
       \E schemas \in {validationSchema.required \o validationSchema.optional} :
       /\ req' = route.req
       /\ methodAndPath' = route.methodAndPath
       /\ IF ~validationSchema.found
          THEN PassThrough /\ UNCHANGED registry
          ELSE /\ checks' = schemas
               /\ registry' = [registry EXCEPT ![route.methodAndPath].required = schemas]
               /\ decodedInputs' = [k \in 1..Len(schemas) |-> Unsettled(schemas[k])]
               /\ defaultCalls' = DefaultsCalled(schemas)
               /\ valPc' = "decoding"
               /\ UNCHANGED nextCalls
    /\ UNCHANGED <<auth, lockOverride, response, warned, applied, served>>
\* Lines 483-494: the route key, the schema lookup, next() if there is none,
\* else the map of getDecodedFromSchemas, which calls every getDefault()
Receive ==
    /\ valPc = "received"
    /\ \E route \in {getRouteMethodAndPath(req)} :
       \E validationSchema \in {Lookup(registry, route.methodAndPath)} :
       \E schemas \in {validationSchema.required \o validationSchema.optional} :
       /\ req' = route.req
       /\ methodAndPath' = route.methodAndPath
       /\ IF ~validationSchema.found
          THEN PassThrough
          ELSE /\ checks' = schemas
               /\ decodedInputs' = [k \in 1..Len(schemas) |-> Unsettled(schemas[k])]
               /\ defaultCalls' = DefaultsCalled(schemas)
               /\ valPc' = "decoding"
               /\ UNCHANGED nextCalls
    /\ UNCHANGED <<auth, lockOverride, response, warned, applied, registry, served>>

\* The promise of check k settles.  A rejection rejects Promise.all and with
\* it the handler's own promise: nothing is written and next() is not called.
Settle(k) ==
    /\ valPc = "decoding"
    /\ ~decodedInputs[k].settled
    /\ \E di \in {DecodeCheck(req, checks[k], lockOverride)} :
       IF di.throws
       THEN /\ valPc' = "threw"
            /\ UNCHANGED decodedInputs
       ELSE /\ decodedInputs' =
                   [decodedInputs EXCEPT ![k] = [settled |-> TRUE,
                                                  order |->
                                                      IF di.schema.self = "required"
                                                      THEN Settled(decodedInputs) + 1
                                                      ELSE 0,
                                                  decoded |-> di.decoded,
                                                  schema |-> di.schema]]
            /\ UNCHANGED valPc
    /\ UNCHANGED <<req, auth, lockOverride, methodAndPath, checks, response, warned,
                   nextCalls, defaultCalls, applied, registry, served>>

\* Lines 496-522: the results are handled in declared order until a response
\* has been sent; if none was, res.status(200).send('OK').  (The scope check
\* of lines 517-519 has an empty body.)
Respond ==
    /\ valPc = "decoding"
    /\ \A k \in 1..Len(decodedInputs) : decodedInputs[k].settled
    /\ \E st \in {ApplyDecoded(req, decodedInputs, 1,
                              [res |-> response, warned |-> warned,
                               applied |-> applied])} :
       /\ response' = IF st.res.writableEnded THEN st.res
                      ELSE Send(st.res, StatusOk, Text("OK"))
       /\ warned' = st.warned
       /\ applied' = st.applied
    /\ valPc' = "done"
    /\ UNCHANGED <<req, auth, lockOverride, methodAndPath, checks, decodedInputs,
                   nextCalls, defaultCalls, registry, served>>

ValStep == Receive \/ (\E k \in 1..Len(decodedInputs) : Settle(k)) \/ Respond

\* The server hands the middleware the next request once it has finished
\* with the current one: the request, its response and the handler's locals
\* are new objects, the module's inputValidationSchema is the same object.
\* The next request is the same request sent again or one to another route.
MaxRequests == 2
FollowUps(request) ==
    {[request EXCEPT !.params.appId = JsUndefined],
     Request("POST", Paths.pathV2JournalLogs, EmptyBody, EmptyQuery),
     Request("POST", Paths.prefixV1Apps \o <<"7">> \o Paths.suffixStop, EmptyBody,
             EmptyQuery)}
NextRequest ==
    /\ valPc \in {"done", "threw"}
    /\ served + 1 < MaxRequests
    /\ served' = served + 1
    /\ req' \in FollowUps(req)
    /\ valPc' = "received"
    /\ methodAndPath' = ""
    /\ checks' = <<>>
    /\ decodedInputs' = <<>>
    /\ response' = FreshResponse(LocalNames)
    /\ warned' = <<>>
    /\ nextCalls' = 0
    /\ defaultCalls' = <<>>
    /\ applied' = <<>>
    /\ UNCHANGED <<auth, lockOverride, registry>>
RequestsStep == ValStep \/ NextRequest

-----------------------------------------------------------------------------
(***************************************************************************)
(* getRouteMethodAndPath on two requests of one method whose paths differ  *)
(* at most in the segment after /v1|v2/apps|applications/.                 *)
(***************************************************************************)
\* longest identifier segment
RouteMaxId == 2
RouteIdChars == {"1", "a", "-"}
RoutePrefixes == {Paths.prefixV1Apps, Paths.prefixV2Applications}
RouteSuffixes == {<<>>, Paths.suffixStop, Paths.suffixRestart}
BareRequest(method, path) ==
    [method |-> method, path |-> path, params |-> [appId |-> JsUndefined]]
NotRouted == [done |-> FALSE, methodAndPath |-> "", appId |-> JsUndefined]

RouteInit ==
    /\ routeIds \in [1..2 -> SeqsUpTo(RouteIdChars, RouteMaxId)]
    /\ \E method \in {"GET", "POST"}, prefix \in RoutePrefixes,
          suffix \in RouteSuffixes :
          routeReqs = [k \in 1..2 |->
                          BareRequest(method, prefix \o routeIds[k] \o suffix)]
    /\ routed = [k \in 1..2 |-> NotRouted]

RouteIdle ==
    /\ routeIds = [k \in 1..2 |-> <<>>]
    /\ routeReqs = [k \in 1..2 |-> BareRequest("GET", <<>>)]
    /\ routed = [k \in 1..2 |-> NotRouted]

Route(k) ==
    /\ ~routed[k].done
    /\ LET route == getRouteMethodAndPath(routeReqs[k]) IN
       routed' = [routed EXCEPT ![k] = [done |-> TRUE,
                                        methodAndPath |-> route.methodAndPath,
                                        appId |-> route.req.params.appId]]
    /\ UNCHANGED <<routeReqs, routeIds>>

-----------------------------------------------------------------------------
(***************************************************************************)
(* Two forced generateKey calls for one pair running at once: two          *)
(* generateScopedKey(appId, serviceName, { force: true }) calls, or for    *)
(* the pair (0, null) two generateCloudKey(true) calls.  Each call is cut  *)
(* at its awaits: the lookup, the delete statement, the synchronous        *)
(* stretch up to the insert statement (the cache clears and                *)
(* generateUniqueKey), the insert statement.  The delete and the insert    *)
(* statement may fail.  Lookups by key and cache expiry go on in between.  *)
(***************************************************************************)
RaceMaxKeys == 4

NotStarted == [pc |-> "start", secrets |-> <<>>, key |-> 0]

\* The table holds the cloud key's row and, for another pair, the pair's row
\* or none; the caches are empty or hold what an earlier lookup of the pair
\* or of its secret has left (for the pair (0, 'null') that may be the row of
\* (0, null), cached under the same id).
RaceInit ==
    /\ \E pair \in Pairs, held \in BOOLEAN :
          /\ pair = <<0, NULL>> => held
          /\ race = [appId |-> pair[1], serviceName |-> pair[2],
                     scopes |-> IF pair = <<0, NULL>> THEN <<GlobalScope>>
                                ELSE DefaultScopes(pair[1]),
                     old |-> IF ~held THEN 0 ELSE IF pair = <<0, NULL>> THEN 1 ELSE 2,
                     proc |-> [p \in 1..2 |-> NotStarted], writers |-> <<>>]
          /\ store = IF held /\ pair # <<0, NULL>>
                     THEN <<CloudRow(1),
                            [appId |-> pair[1], serviceName |-> pair[2], key |-> 2,
                             scopes |-> serialiseScopes(DefaultScopes(pair[1]))]>>
                     ELSE <<CloudRow(1)>>
    /\ nextKey = Len(store) + 1
    /\ cacheByService \in
          {{}} \cup {{[id |-> normalizer(race.appId, race.serviceName),
                       value |-> rows]} :
                        rows \in {SelectWhere(store, race.appId, race.serviceName),
                                  SelectWhere(store, 0, NULL)} \ {<<>>}}
    /\ cacheByKey \in
          {{}} \cup {{[id |-> row.key, value |-> row]} :
                        row \in {store[i] : i \in {Len(store)}}}
    /\ cloudApiKey = 1
    /\ inited = TRUE
    /\ lastOp = NoOp
    /\ returned = {}
    /\ retired = {}
    /\ revoked = {}

RaceIdle ==
    race = [appId |-> 0, serviceName |-> NULL, scopes |-> <<>>, old |-> 0,
            proc |-> [p \in 1..2 |-> NotStarted], writers |-> <<>>]

\* line 198: const secrets = await getApiKeyForService(appId, serviceName)
RaceLookup(p) ==
    /\ race.proc[p].pc = "start"
    /\ LET got == getApiKeyForService(Ks, race.appId, race.serviceName) IN
       /\ cacheByService' = got.ks.byService
       /\ race' = [race EXCEPT !.proc[p].pc = "looked",
                               !.proc[p].secrets = got.value]
    /\ UNCHANGED <<store, cacheByKey, cloudApiKey, nextKey, inited, lastOp,
                   returned, retired, revoked>>

\* line 204: await db.models('apiSecret').where({ appId, serviceName }).del()
RaceDelete(p) ==
    /\ race.proc[p].pc = "looked"
    /\ store' = DeleteWhere(store, race.appId, race.serviceName)
    /\ race' = [race EXCEPT !.proc[p].pc = "deleted"]
    /\ UNCHANGED <<cacheByService, cacheByKey, cloudApiKey, nextKey, inited,
                   lastOp, returned, retired, revoked>>

\* line 204: the delete statement fails; the rejection leaves generateKey and
\* its callers through their awaits, none of which catches it
RaceDeleteFails(p) ==
    /\ race.proc[p].pc = "looked"
    /\ race' = [race EXCEPT !.proc[p].pc = "deleteFailed"]
    /\ UNCHANGED keyVars

\* a stretch that leaves the by-secret cache as it is
RaceClearByPairOnly(p) ==
    /\ race.proc[p].pc = "deleted"
    /\ nextKey <= RaceMaxKeys
    /\ cacheByService' =
           CacheClear(cacheByService, normalizer(race.appId, race.serviceName))
    /\ nextKey' = nextKey + 1
    /\ race' = [race EXCEPT !.proc[p].pc = "inserting",
                            !.proc[p].key = nextKey]
    /\ UNCHANGED <<store, cacheByKey, cloudApiKey, inited, lastOp, returned,
                   retired, revoked>>
\* lines 207-217 and 254: the cache clears, then createNewKey up to its await
RaceClear(p) ==
    /\ race.proc[p].pc = "deleted"
    /\ nextKey <= RaceMaxKeys
    /\ cacheByKey' = IF Len(race.proc[p].secrets) > 0
                     THEN CacheClear(cacheByKey, race.proc[p].secrets[1].key)
                     ELSE cacheByKey
    /\ cacheByService' =
           CacheClear(cacheByService, normalizer(race.appId, race.serviceName))
    /\ nextKey' = nextKey + 1
    /\ race' = [race EXCEPT !.proc[p].pc = "inserting",
                            !.proc[p].key = nextKey]
    /\ UNCHANGED <<store, cloudApiKey, inited, lastOp, returned, retired,
                   revoked>>

\* lines 255-263: the insert statement runs and createNewKey returns the key;
\* line 115: generateCloudKey assigns it to cloudApiKey
RaceInsert(p) ==
    /\ race.proc[p].pc = "inserting"
    /\ store' = Append(store,
                       [appId |-> race.appId, serviceName |-> race.serviceName,
                        key |-> race.proc[p].key,
                        scopes |-> serialiseScopes(race.scopes)])
    /\ cloudApiKey' = IF race.serviceName = NULL THEN race.proc[p].key
                      ELSE cloudApiKey
    /\ race' = [race EXCEPT !.proc[p].pc = "done",
                            !.writers = Append(@, p)]
    /\ UNCHANGED <<cacheByService, cacheByKey, nextKey, inited,
                   lastOp, returned, retired, revoked>>

\* an insert statement whose failure puts back the row the run deleted
RaceInsertRollsBack(p) ==
    /\ race.proc[p].pc = "inserting"
    /\ store' = IF race.old = 0 THEN store
                ELSE Append(store,
                            [appId |-> race.appId, serviceName |-> race.serviceName,
                             key |-> race.old,
                             scopes |-> serialiseScopes(race.scopes)])
    /\ race' = [race EXCEPT !.proc[p].pc = "insertFailed"]
    /\ UNCHANGED <<cacheByService, cacheByKey, cloudApiKey, nextKey, inited,
                   lastOp, returned, retired, revoked>>
\* line 255: the insert statement fails; the rejection leaves createNewKey,
\* generateKey and generateCloudKey, whose assignment is not made
RaceInsertFails(p) ==
    /\ race.proc[p].pc = "inserting"
    /\ race' = [race EXCEPT !.proc[p].pc = "insertFailed"]
    /\ UNCHANGED keyVars

RaceStep ==
    \/ \E p \in 1..2 : RaceLookup(p)
    \/ \E p \in 1..2 : RaceDelete(p)
    \/ \E p \in 1..2 : RaceDeleteFails(p)
    \/ \E p \in 1..2 : RaceClear(p)
    \/ \E p \in 1..2 : RaceInsert(p)
    \/ \E p \in 1..2 : RaceInsertFails(p)
    \/ (\E key \in KnownKeys : GetScopesForKey(key)) /\ UNCHANGED race
    \/ ExpireByService /\ UNCHANGED race
    \/ ExpireByKey /\ UNCHANGED race

-----------------------------------------------------------------------------
(***************************************************************************)
(* withDefault(type, defaultValue, shouldDefault).decode(v) on sample      *)
(* codecs, default values, predicates and inputs.                          *)
(***************************************************************************)
DefaultTypes ==
    {"boolean", "string", "number|null", "BooleanIdentifier", "NumericIdentifier"}
DefaultPredicates == {"default", "notTrue", "notPositiveInteger"}
DefaultValues ==
    {JsUndefined, JsNull, JsBool(TRUE), JsBool(FALSE), JsNum(0), JsNum(5),
     JsStr(<<"5">>), JsStr(<<"x">>)}
NotDecoded == Failures(<<>>)

DefaultInit ==
    \E type \in DefaultTypes, defaultValue \in DefaultValues,
       shouldDefault \in DefaultPredicates, v \in DefaultValues :
        wd = [type |-> type, defaultValue |-> defaultValue,
              shouldDefault |-> shouldDefault, v |-> v,
              done |-> FALSE, threw |-> FALSE, decoded |-> NotDecoded]

DefaultIdle ==
    wd = [type |-> "boolean", defaultValue |-> JsUndefined,
          shouldDefault |-> "default", v |-> JsUndefined,
          done |-> TRUE, threw |-> FALSE, decoded |-> NotDecoded]

\* decode(v): validate, which calls shouldDefault(v) first; a predicate that
\* throws makes decode throw
Decode ==
    /\ ~wd.done
    /\ wd' = IF ShouldDefaultThrows(wd.shouldDefault, wd.v)
             THEN [wd EXCEPT !.done = TRUE, !.threw = TRUE]
             ELSE [wd EXCEPT !.done = TRUE,
                             !.decoded = withDefault(wd.type, wd.defaultValue,
                                                     wd.shouldDefault, wd.v)]

-----------------------------------------------------------------------------
(***************************************************************************)
(* The key store on scope lists of more than one scope: a pair holds a     *)
(* credential issued with a list of up to ListMaxLen scopes, repeated      *)
(* scopes allowed; it is asked for again with such a list, refreshed and   *)
(* looked up.                                                              *)
(***************************************************************************)
ListMaxLen == 2

\* the global scope and the scope of an application that owns no pair
ListScopes == {GlobalScope, AppScope(MaxAppId + 1)}
WideScopeLists == SeqsUpTo(ListScopes, ListMaxLen)

\* the table after initialized and one generateScopedKey(appId, serviceName,
\* { scopes }) call, the caches timed out
ListInit ==
    /\ \E appId \in AppIds, serviceName \in ServiceNames,
          scopes \in WideScopeLists :
            store = <<CloudRow(1),
                      [appId |-> appId, serviceName |-> serviceName, key |-> 2,
                       scopes |-> serialiseScopes(scopes)]>>
    /\ nextKey = 3
    /\ cacheByService = {}
    /\ cacheByKey = {}
    /\ cloudApiKey = 1
    /\ inited = TRUE
    /\ lastOp = NoOp
    /\ returned = {}
    /\ retired = {}
    /\ revoked = {}

ListStep ==
    \/ \E appId \in AppIds, serviceName \in ServiceNames,
          scopes \in WideScopeLists :
            GenerateScopedKey(appId, serviceName, FALSE, Given(scopes))
    \/ \E key \in KnownKeys : RefreshKey(key)
    \/ \E key \in KnownKeys : GetScopesForKey(key)
    \/ ExpireByService
    \/ ExpireByKey

-----------------------------------------------------------------------------
(***************************************************************************)
(* stopOrStart, the handler of POST /v1/apps/:appId/stop and /start, on    *)
(* one request.  Its promise chain runs in up to three steps: the callback *)
(* of Promise.all([getCurrentApps(), getApp(appId)]), the callback of      *)
(* executeStep and, for start, the callback of the second getCurrentApps.  *)
(* A rejection anywhere in the chain goes to next through .catch(next).    *)
(***************************************************************************)
StopAppIds == {1, 7}
MaxServices == 2
\* apps[appId]: undefined, or an app with its services
AppStates == {[present |-> FALSE, services |-> 0]}
             \cup {[present |-> TRUE, services |-> n] : n \in 0..MaxServices}
\* the image of the app's first service
FirstImage == "services[0].imageId"

StopInit ==
    \E action \in {"start", "stop"}, appId \in StopAppIds, force \in BOOLEAN,
       scopes \in AuthScopes, app \in AppStates :
        ss = [action |-> action, appId |-> appId, force |-> force, auth |-> scopes,
              app |-> app, pc |-> "called", volatile |-> {}, executed |-> <<>>,
              res |-> FreshResponse({}), nextCalls |-> 0]

StopIdle ==
    ss = [action |-> "stop", appId |-> 1, force |-> FALSE, auth |-> <<>>,
          app |-> [present |-> FALSE, services |-> 0], pc |-> "done",
          volatile |-> {}, executed |-> <<>>, res |-> FreshResponse({}),
          nextCalls |-> 0]

\* the body of res.json({ containerId })
ContainerIdBody == [json |-> TRUE, message |-> "{containerId}"]
\* .catch(next)
CatchNext(h) == [h EXCEPT !.nextCalls = @ + 1, !.pc = "done"]
\* res.status(code).send(body) as the last statement of a callback
Answer(h, code, body) == [h EXCEPT !.res = Send(@, code, body), !.pc = "done"]
\* Lines 69-81: setTargetVolatileForService, generateStep and the call of
\* executeStep
SetTargetAndExecute(h) ==
    [h EXCEPT !.volatile = @ \cup {[imageId |-> FirstImage,
                                    running |-> h.action # "stop"]},
              !.executed = Append(@, h.action),
              !.pc = "executing"]

\* a callback that acts without asking whether the request is scoped
AppsResolvedUnscoped(h, targetApp) ==
    IF ~h.app.present
    THEN Answer(h, StatusBadRequest, Text("App not found"))
    ELSE IF h.app.services = 0
    THEN Answer(h, StatusBadRequest, Text("No services on app"))
    ELSE IF h.app.services > 1
    THEN Answer(h, StatusBadRequest,
                Text("Some v1 endpoints are only allowed on single-container apps"))
    ELSE IF ~targetApp
    THEN CatchNext(h)
    ELSE SetTargetAndExecute(h)
\* Lines 42-81: the callback of Promise.all; targetApp tells whether getApp
\* resolved to an app (reading .services of anything else throws)
AppsResolved(h, targetApp) ==
    IF ~h.app.present
    THEN Answer(h, StatusBadRequest, Text("App not found"))
    ELSE IF h.app.services = 0
    THEN Answer(h, StatusBadRequest, Text("No services on app"))
    ELSE IF h.app.services > 1
    THEN Answer(h, StatusBadRequest,
                Text("Some v1 endpoints are only allowed on single-container apps"))
    ELSE IF ~isScoped(Apps({h.appId}), h.auth)
    THEN Answer(h, StatusUnauthorized, Text("Unauthorized"))
    ELSE IF ~targetApp
    THEN CatchNext(h)
    ELSE SetTargetAndExecute(h)

\* Promise.all resolves and its callback runs
StopOrStartThen ==
    /\ ss.pc = "called"
    /\ \E targetApp \in BOOLEAN : ss' = AppsResolved(ss, targetApp)
\* getCurrentApps or getApp rejects
StopOrStartLookupFails ==
    /\ ss.pc = "called"
    /\ ss' = CatchNext(ss)
\* Lines 82-98: executeStep resolves; stop answers with the service, start
\* asks for the current apps again
ExecuteStepResolves ==
    /\ ss.pc = "executing"
    /\ ss' = IF ss.action = "stop"
             THEN Answer(ss, StatusOk, ContainerIdBody)
             ELSE [ss EXCEPT !.pc = "refreshing"]
\* executeStep rejects, with UpdatesLockedError for instance
ExecuteStepRejects ==
    /\ ss.pc = "executing"
    /\ ss' = CatchNext(ss)
\* Lines 88-95: the second getCurrentApps resolves; no first service throws
AppsRefreshed ==
    /\ ss.pc = "refreshing"
    /\ \E found \in BOOLEAN :
          ss' = IF found THEN Answer(ss, StatusOk, ContainerIdBody)
                ELSE CatchNext(ss)

StopStep ==
    \/ StopOrStartThen
    \/ StopOrStartLookupFails
    \/ ExecuteStepResolves
    \/ ExecuteStepRejects
    \/ AppsRefreshed

-----------------------------------------------------------------------------
(***************************************************************************)
(* host-config: patchProxy and patch.  An object is a JsObj over the keys  *)
(* of its type, an absent key holding JsUndefined.  A proxy block keeps    *)
(* two of ProxyConfig's fields, a dns block both of DnsConfig's.  The      *)
(* modules ./proxy and ../lib/update-lock are not among the sources:       *)
(* setProxy and readProxy are modelled by what the tests of RedsocksConf   *)
(* and of the host-config route show (a configuration without a redsocks   *)
(* field is written as the empty string, and read back as no proxy and no  *)
(* dns), lock by the tests 'prevents patch if update locks are present'    *)
(* and 'patches if update locks are present but force is specified'.       *)
(***************************************************************************)
ProxyConfigKeys == {"type", "ip"}
DnsConfigKeys == {"remote_ip", "remote_port"}
\* Object.keys(value) of an object
Keys(value) == {k \in DOMAIN value.v : value.v[k] # JsUndefined}
IsObject(value) == value.t = "object"
EmptyObject(keys) == JsObj([k \in keys |-> JsUndefined])
\* { ...a, ...b }: spreading undefined or null adds nothing
Spread(keys, a, b) ==
    JsObj([k \in keys |->
              IF IsObject(b) /\ b.v[k] # JsUndefined THEN b.v[k]
              ELSE IF IsObject(a) THEN a.v[k] ELSE JsUndefined])
\* a RedsocksConfig: redsocks and dns, each optional
RedsocksConfig(redsocks, dns) == [redsocks |-> redsocks, dns |-> dns]
EmptyRedsocksConfig == RedsocksConfig(JsUndefined, JsUndefined)

\* a patchProxy that keeps the dns block when the proxy is removed
patchProxyKeepsDns(currentConf, targetConf) ==
    IF targetConf.redsocks = JsUndefined /\ targetConf.dns = JsUndefined
    THEN EmptyRedsocksConfig
    ELSE LET dns == IF targetConf.dns = JsNull THEN JsUndefined
                    ELSE Spread(DnsConfigKeys, currentConf.dns, targetConf.dns)
             redsocks == Spread(ProxyConfigKeys, currentConf.redsocks,
                                targetConf.redsocks) IN
         IF \/ targetConf.redsocks = JsNull
            \/ IsObject(targetConf.redsocks) /\ Keys(targetConf.redsocks) = {}
         THEN RedsocksConfig(JsUndefined, dns)
         ELSE RedsocksConfig(redsocks, dns)
\* Lines 64-112
patchProxy(currentConf, targetConf) ==
    IF targetConf.redsocks = JsUndefined /\ targetConf.dns = JsUndefined
    THEN EmptyRedsocksConfig
    ELSE LET dns == IF targetConf.dns = JsNull THEN JsUndefined
                    ELSE Spread(DnsConfigKeys, currentConf.dns, targetConf.dns)
             redsocks == Spread(ProxyConfigKeys, currentConf.redsocks,
                                targetConf.redsocks) IN
         IF \/ targetConf.redsocks = JsNull
            \/ IsObject(targetConf.redsocks) /\ Keys(targetConf.redsocks) = {}
         THEN EmptyRedsocksConfig
         ELSE RedsocksConfig(redsocks, dns)

\* the defaults imported from ./proxy
DEFAULT_REMOTE_IP == JsStr(<<"8", ".", "8">>)
DEFAULT_REMOTE_PORT == JsNum(53)
\* target.dns.split(':'): the first two pieces, JsUndefined for a missing one
NotColon == Alnum \cup {"."}
SplitDns(chars) ==
    LET ip == PrefixIn(chars, NotColon)
        rest == SubSeq(chars, Len(ip) + 2, Len(chars)) IN
    [ip |-> JsStr(ip),
     port |-> IF Len(chars) > Len(ip) THEN JsStr(PrefixIn(rest, NotColon))
              ELSE JsUndefined]
\* Lines 132-143: what patch makes of readProxy's answer
CurrentConf(current) == RedsocksConfig(current.proxy, current.dns)
\* Lines 151-166: the defined fields of target.proxy, null if there is none
TargetRedsocks(proxy) ==
    IF Falsy(proxy) THEN JsUndefined
    ELSE LET definedConf ==
                 JsObj([k \in ProxyConfigKeys |->
                           IF Falsy(proxy.v[k]) THEN JsUndefined ELSE proxy.v[k]]) IN
         IF Keys(definedConf) # {} THEN definedConf ELSE JsNull
\* Lines 169-188: true is the default dns, false null, a string [IP][:PORT]
TargetDns(dns) ==
    CASE dns.t = "boolean" ->
            IF dns.v
            THEN JsObj([remote_ip |-> DEFAULT_REMOTE_IP,
                        remote_port |-> DEFAULT_REMOTE_PORT])
            ELSE JsNull
      [] dns.t = "string" ->
            LET pieces == SplitDns(dns.v) IN
            JsObj([remote_ip |-> IF Falsy(pieces.ip) THEN DEFAULT_REMOTE_IP
                                 ELSE pieces.ip,
                   remote_port |-> IF Falsy(pieces.port) THEN DEFAULT_REMOTE_PORT
                                   ELSE [t |-> "number", v |-> ParseInt(pieces.port.v)]])
      [] OTHER -> JsUndefined
ToPatch(target) == RedsocksConfig(TargetRedsocks(target.proxy), TargetDns(target.dns))
\* what readProxy answers after setProxy(conf): RedsocksConf.stringify
\* writes nothing for a configuration without a redsocks field, and a dns
\* block only next to a redsocks block
Written(conf) ==
    IF IsObject(conf.redsocks) /\ Keys(conf.redsocks) # {}
    THEN [proxy |-> conf.redsocks,
          dns |-> IF IsObject(conf.dns) /\ Keys(conf.dns) # {} THEN conf.dns
                  ELSE JsUndefined]
    ELSE [proxy |-> JsUndefined, dns |-> JsUndefined]

\* the configurations the host starts with: none, a proxy, a proxy and dns
HostProxy == JsObj([type |-> JsStr(<<"s">>), ip |-> JsStr(<<"e">>)])
HostDns == JsObj([remote_ip |-> JsStr(<<"1">>), remote_port |-> JsNum(52)])
HostConfs ==
    {[proxy |-> JsUndefined, dns |-> JsUndefined],
     [proxy |-> HostProxy, dns |-> JsUndefined],
     [proxy |-> HostProxy, dns |-> HostDns]}
\* the network object of a patch
PatchTargets ==
    [hostname : {JsUndefined, JsStr(<<"t">>), JsStr(<<>>)},
     proxy : {JsUndefined, EmptyObject(ProxyConfigKeys),
              JsObj([type |-> JsStr(<<"r">>), ip |-> JsUndefined]),
              JsObj([type |-> JsStr(<<"r">>), ip |-> JsStr(<<"o">>)])},
     dns : {JsUndefined, JsBool(TRUE), JsBool(FALSE), JsStr(<<"6", ":", "5">>),
            JsStr(<<"6">>), JsStr(<<":", "5">>)}]
\* config.get('uuid').slice(0, 7)
UuidPrefix == JsStr(<<"u">>)

HostInit ==
    \E conf \in HostConfs, target \in PatchTargets, force \in BOOLEAN,
       locked \in BOOLEAN :
        host = [hostname |-> JsStr(<<"h">>), conf |-> conf, before |-> conf,
                locked |-> locked, target |-> target, force |-> force,
                pc |-> "called", holding |-> FALSE, error |-> "",
                patched |-> EmptyRedsocksConfig]

HostIdle ==
    host = [hostname |-> JsStr(<<"h">>),
            conf |-> [proxy |-> JsUndefined, dns |-> JsUndefined],
            before |-> [proxy |-> JsUndefined, dns |-> JsUndefined],
            locked |-> FALSE,
            target |-> [hostname |-> JsUndefined, proxy |-> JsUndefined,
                        dns |-> JsUndefined],
            force |-> FALSE, pc |-> "done", holding |-> FALSE, error |-> "",
            patched |-> EmptyRedsocksConfig]

\* target.proxy != null || target.dns != null
WantsProxyOrDns(target) ==
    target.proxy \notin {JsUndefined, JsNull} \/ target.dns \notin {JsUndefined, JsNull}
\* Lines 127-130: on to updateLock.lock, or the end of patch
AfterHostname(h) ==
    [h EXCEPT !.pc = IF WantsProxyOrDns(h.target) THEN "locking" ELSE "done"]

\* a patch that asks for the lock first and writes the hostname only when
\* it needs no lock
PatchGotAppsLockFirst ==
    /\ host.pc = "called"
    /\ host' = IF WantsProxyOrDns(host.target)
               THEN [host EXCEPT !.pc = "locking"]
               ELSE IF host.target.hostname \notin {JsUndefined, JsNull}
               THEN [host EXCEPT !.pc = "setHostname"]
               ELSE AfterHostname(host)
\* Lines 118-125: getCurrentApps has resolved
PatchGotApps ==
    /\ host.pc = "called"
    /\ host' = IF host.target.hostname \notin {JsUndefined, JsNull}
               THEN [host EXCEPT !.pc = "setHostname"]
               ELSE AfterHostname(host)
\* Lines 27-38: setHostname's config.set has resolved
SetHostnameDone ==
    /\ host.pc = "setHostname"
    /\ host' = AfterHostname(
                   [host EXCEPT !.hostname = IF Falsy(host.target.hostname)
                                             THEN UuidPrefix
                                             ELSE host.target.hostname])
\* updateLock.lock takes the locks: none is held by an application, or force
LockTaken ==
    /\ host.pc = "locking"
    /\ ~host.locked \/ host.force
    /\ host' = [host EXCEPT !.holding = TRUE, !.pc = "reading"]
\* updateLock.lock rejects with UpdatesLockedError
LockRefused ==
    /\ host.pc = "locking"
    /\ host.locked /\ ~host.force
    /\ host' = [host EXCEPT !.error = "UpdatesLockedError", !.pc = "done"]
\* Lines 132-191: readProxy has resolved; the patched configuration
ProxyRead ==
    /\ host.pc = "reading"
    /\ host' = [host EXCEPT !.patched = patchProxy(CurrentConf(host.conf),
                                                   ToPatch(host.target)),
                            !.pc = "writing"]
\* Lines 192-193: setProxy has resolved and the lock is released
ProxySet ==
    /\ host.pc = "writing"
    /\ host' = [host EXCEPT !.conf = Written(host.patched), !.holding = FALSE,
                            !.pc = "done"]

HostStep ==
    \/ PatchGotApps
    \/ SetHostnameDone
    \/ LockTaken
    \/ LockRefused
    \/ ProxyRead
    \/ ProxySet

-----------------------------------------------------------------------------
(***************************************************************************)
(* writeFileAtomic(pathName, data) by up to two callers on one path, next  *)
(* to a reader of the path.  The file system is a directory of two names,  *)
(* pathName and `${pathName}.new`, each bound to a file or to none (0),    *)
(* and the content of each file; a file handle stays on its file whatever  *)
(* happens to the name.  Each await of writeAndSyncFile and safeRename is  *)
(* one step of the caller.                                                 *)
(***************************************************************************)
Writers == {1, 2}
MaxFiles == 3
OldContent == <<"o", "o">>
\* the data of each caller
DataOf(w) == IF w = 1 THEN <<"a">> ELSE <<"b", "b">>
NoFile == 0

FileInit ==
    \E active \in {{1}, Writers} :
        fsys = [content |-> [f \in 1..MaxFiles |-> IF f = 1 THEN OldContent ELSE <<>>],
                used |-> 1,
                dir |-> [target |-> 1, temp |-> NoFile],
                pc |-> [w \in Writers |-> IF w \in active THEN "open" ELSE "idle"],
                fd |-> [w \in Writers |-> NoFile],
                observed |-> {}]

FileIdle ==
    fsys = [content |-> [f \in 1..MaxFiles |-> IF f = 1 THEN OldContent ELSE <<>>],
            used |-> 1,
            dir |-> [target |-> 1, temp |-> NoFile],
            pc |-> [w \in Writers |-> "idle"],
            fd |-> [w \in Writers |-> NoFile],
            observed |-> {}]

\* file.write(data, 0, ...): data over the start of the content
Overwrite(content, data) ==
    data \o SubSeq(content, Len(data) + 1, Len(content))

\* Line 16: fs.open(`${pathName}.new`, 'w') creates the file, or truncates
\* the file the name is bound to
OpenTemp(w) ==
    /\ fsys.pc[w] = "open"
    /\ IF fsys.dir.temp = NoFile
       THEN /\ fsys.used < MaxFiles
            /\ fsys' = [fsys EXCEPT !.used = @ + 1,
                                    !.content[fsys.used + 1] = <<>>,
                                    !.dir.temp = fsys.used + 1,
                                    !.fd[w] = fsys.used + 1,
                                    !.pc[w] = "write"]
       ELSE fsys' = [fsys EXCEPT !.content[fsys.dir.temp] = <<>>,
                                 !.fd[w] = fsys.dir.temp,
                                 !.pc[w] = "write"]
\* Lines 17-21: file.write
WriteTemp(w) ==
    /\ fsys.pc[w] = "write"
    /\ fsys' = [fsys EXCEPT !.content[fsys.fd[w]] = Overwrite(@, DataOf(w)),
                            !.pc[w] = "sync"]
\* Lines 22-23: file.sync and file.close
SyncAndClose(w) ==
    /\ fsys.pc[w] = "sync"
    /\ fsys' = [fsys EXCEPT !.fd[w] = NoFile, !.pc[w] = "rename"]
\* Line 35: fs.rename(`${pathName}.new`, pathName); ENOENT if the name is
\* bound to no file, and writeFileAtomic rejects
Rename(w) ==
    /\ fsys.pc[w] = "rename"
    /\ fsys' = IF fsys.dir.temp = NoFile
               THEN [fsys EXCEPT !.pc[w] = "failed"]
               ELSE [fsys EXCEPT !.dir = [target |-> fsys.dir.temp, temp |-> NoFile],
                                 !.pc[w] = "syncdir"]
\* Lines 36-38: the directory is opened, synced and closed
SyncDir(w) ==
    /\ fsys.pc[w] = "syncdir"
    /\ fsys' = [fsys EXCEPT !.pc[w] = "done"]
\* a reader reads pathName
ReadTarget ==
    /\ \E w \in Writers : fsys.pc[w] \notin {"idle", "done", "failed"}
    /\ fsys.content[fsys.dir.target] \notin fsys.observed
    /\ fsys' = [fsys EXCEPT !.observed = @ \cup {fsys.content[fsys.dir.target]}]

FileStep ==
    \/ \E w \in Writers : OpenTemp(w)
    \/ \E w \in Writers : WriteTemp(w)
    \/ \E w \in Writers : SyncAndClose(w)
    \/ \E w \in Writers : Rename(w)
    \/ \E w \in Writers : SyncDir(w)
    \/ ReadTarget


\* The host and file models are idle in the other specifications.
DeviceIdle == StopIdle /\ HostIdle /\ FileIdle

-----------------------------------------------------------------------------
(***************************************************************************)
(* The specifications.                                                     *)
(***************************************************************************)
Init == KeyInit /\ ScopeIdle /\ ValIdle /\ RouteIdle /\ RaceIdle /\ DefaultIdle
            /\ DeviceIdle
Next == KeyNext /\ UNCHANGED <<scopeVars, valVars, routeVars, raceVars, defaultVars, deviceVars>>
Spec == Init /\ [][Next]_vars

ScopeSpecInit == ScopeInit /\ KeyIdle /\ ValIdle /\ RouteIdle /\ RaceIdle /\ DefaultIdle
            /\ DeviceIdle
ScopeNext == CheckScoped /\ UNCHANGED <<keyVars, valVars, routeVars, raceVars, defaultVars, deviceVars>>
SpecScope == ScopeSpecInit /\ [][ScopeNext]_vars

ValSpecInit == ValInit /\ KeyIdle /\ ScopeIdle /\ RouteIdle /\ RaceIdle /\ DefaultIdle
            /\ DeviceIdle
ValNext == ValStep /\ UNCHANGED <<keyVars, scopeVars, routeVars, raceVars, defaultVars, deviceVars>>
SpecVal == ValSpecInit /\ [][ValNext]_vars
\* the event loop runs every continuation that is ready
SpecValFair == SpecVal /\ WF_vars(ValNext)

RequestsNext ==
    RequestsStep /\ UNCHANGED <<keyVars, scopeVars, routeVars, raceVars, defaultVars, deviceVars>>
SpecRequests == ValSpecInit /\ [][RequestsNext]_vars

RouteSpecInit == RouteInit /\ KeyIdle /\ ScopeIdle /\ ValIdle /\ RaceIdle /\ DefaultIdle
            /\ DeviceIdle
RouteNext ==
    (\E k \in 1..2 : Route(k)) /\ UNCHANGED <<keyVars, scopeVars, valVars, raceVars, defaultVars, deviceVars>>
SpecRoute == RouteSpecInit /\ [][RouteNext]_vars

RaceSpecInit == RaceInit /\ ScopeIdle /\ ValIdle /\ RouteIdle /\ DefaultIdle
                /\ DeviceIdle
RaceNext == RaceStep /\ UNCHANGED <<scopeVars, valVars, routeVars, defaultVars, deviceVars>>
SpecRace == RaceSpecInit /\ [][RaceNext]_vars

ListSpecInit == ListInit /\ ScopeIdle /\ ValIdle /\ RouteIdle /\ RaceIdle /\ DefaultIdle
            /\ DeviceIdle
ListNext == ListStep /\ UNCHANGED <<scopeVars, valVars, routeVars, raceVars, defaultVars, deviceVars>>
SpecLists == ListSpecInit /\ [][ListNext]_vars

DefaultSpecInit == DefaultInit /\ KeyIdle /\ ScopeIdle /\ ValIdle /\ RouteIdle /\ RaceIdle
                   /\ DeviceIdle
DefaultNext ==
    Decode /\ UNCHANGED <<keyVars, scopeVars, valVars, routeVars, raceVars, deviceVars>>
SpecDefault == DefaultSpecInit /\ [][DefaultNext]_vars

BaseIdle == KeyIdle /\ ScopeIdle /\ ValIdle /\ RouteIdle /\ RaceIdle /\ DefaultIdle
StopSpecInit == StopInit /\ BaseIdle /\ HostIdle /\ FileIdle
StopNext ==
    StopStep /\ UNCHANGED <<keyVars, scopeVars, valVars, routeVars, raceVars, defaultVars,
                            hostVars, fileVars>>
SpecStopStart == StopSpecInit /\ [][StopNext]_vars

HostSpecInit == HostInit /\ BaseIdle /\ StopIdle /\ FileIdle
HostNext ==
    HostStep /\ UNCHANGED <<keyVars, scopeVars, valVars, routeVars, raceVars, defaultVars,
                            stopVars, fileVars>>
SpecHost == HostSpecInit /\ [][HostNext]_vars

FileSpecInit == FileInit /\ BaseIdle /\ StopIdle /\ HostIdle
FileNext ==
    FileStep /\ UNCHANGED <<keyVars, scopeVars, valVars, routeVars, raceVars, defaultVars,
                            stopVars, hostVars>>
SpecFiles == FileSpecInit /\ [][FileNext]_vars

-----------------------------------------------------------------------------
(***************************************************************************)
(* Properties of the key store, checked under Spec.                        *)
(***************************************************************************)
IssuanceOps == {"initialized", "generateScopedKey", "generateCloudKey"}

\* C1: two consecutive generateKey/generateScopedKey calls with the same
\* arguments and force = false return the same secret, and the second one
\* runs no store delete and no store insert, whatever cache entries timed
\* out between the two.
C1_IdempotentReuse ==
    (lastOp.repeats /\ ~lastOp.force) =>
        /\ lastOp.result = lastOp.previous
        /\ lastOp.dels = 0
        /\ lastOp.ins = 0

\* C2: a forced generateKey returns a secret never returned for the pair
\* before, and every secret returned for the pair before a forced run has
\* no scopes (getScopesForKey answers null) from then on.
C2_ForcedRotation ==
    /\ (lastOp.op \in IssuanceOps \cup {"refreshKey"} /\ lastOp.ok
            /\ (lastOp.force \/ lastOp.dels > 0)) => lastOp.fresh
    /\ \A k \in retired : getScopesForKeyNow(k) = NoScopesFound

\* C3: a generateKey call with force = false whose desired scope list is not
\* the one stored for the pair deletes the old row, inserts exactly one row
\* with exactly the desired scopes, returns a secret other than the old one,
\* leaves the old secret without scopes, and re-invokes itself at most once.
C3_ScopeDriftRotates ==
    (lastOp.op \in IssuanceOps /\ ~lastOp.force /\ lastOp.drift) =>
        /\ lastOp.dels = 1
        /\ lastOp.ins = 1
        /\ lastOp.calls <= 2
        /\ lastOp.result \notin lastOp.oldKeys
        /\ \A k \in lastOp.oldKeys :
                /\ Len(SelectByKey(store, k)) = 0
                /\ getScopesForKeyNow(k) = NoScopesFound
        /\ SelectWhere(store, lastOp.appId, lastOp.serviceName) =
                <<[appId |-> lastOp.appId, serviceName |-> lastOp.serviceName,
                   key |-> lastOp.result,
                   scopes |-> serialiseScopes(lastOp.scopes)]>>

\* C4: refreshKey of the current global secret (the secret of the row with
\* appId 0 and serviceName null) returns a new secret whose scopes are
\* exactly [global], and the old global secret has no scopes afterwards.
C4_RefreshGlobal ==
    /\ (lastOp.op = "refreshKey" /\ lastOp.wasCloud) =>
            /\ lastOp.ok
            /\ lastOp.result # lastOp.key
            /\ getScopesForKeyNow(lastOp.result) = ScopesFound(<<GlobalScope>>)
            /\ cloudApiKey = lastOp.result
    /\ \A r \in revoked :
            r.cloud => getScopesForKeyNow(r.key) = NoScopesFound

C4_Witness ==
    /\ lastOp.op = "refreshKey" /\ lastOp.wasCloud /\ lastOp.ok
    /\ \E r \in revoked : r.cloud /\ r.key = lastOp.key

\* C5: refreshKey of a secret that no stored row carries fails with
\* KeyNotFoundError and changes neither the table nor cloudApiKey.
C5_RefreshUnknown ==
    (lastOp.op = "refreshKey" /\ ~lastOp.carried) =>
        /\ ~lastOp.ok
        /\ lastOp.storeSame
        /\ lastOp.cloudSame
        /\ lastOp.dels = 0
        /\ lastOp.ins = 0

C5_Witness ==
    /\ lastOp.op = "refreshKey" /\ ~lastOp.carried /\ ~lastOp.ok
    /\ lastOp.key \in 1..MaxKeys

-----------------------------------------------------------------------------
(***************************************************************************)
(* Properties of isScoped, checked under SpecScope.                        *)
(***************************************************************************)
ScopesOf(scopes) == {scopes[i] : i \in 1..Len(scopes)}

\* C6: isScoped(resources, scopes) is true exactly when the list holds a
\* global scope, or holds an app scope whose appId is one of resources.apps;
\* so an empty list authorizes nothing, and a list of app scopes authorizes
\* nothing when resources.apps is absent.
C6_IsScopedIffSomeScope ==
    scoped.done =>
        /\ scoped.value <=>
            \/ GlobalScope \in ScopesOf(scopeList)
            \/ /\ resources.hasApps
               /\ \E a \in resources.apps : AppScope(a) \in ScopesOf(scopeList)
        /\ scopeList = <<>> => ~scoped.value
        /\ (~resources.hasApps /\ GlobalScope \notin ScopesOf(scopeList))
                => ~scoped.value

C6_Witness ==
    /\ scoped.done /\ scoped.value
    /\ GlobalScope \notin ScopesOf(scopeList)
    /\ Len(scopeList) = 2 /\ scopeList[1] # scopeList[2]
    /\ resources.apps = {scopeList[2].appId}

\* C13: in every state reached by issuance, refresh and lookup calls that run
\* one after the other, with cache entries expiring in between, the table
\* holds at most one row for each (appId, serviceName) pair.
C13_AtMostOnePerPair ==
    \A pair \in Pairs : Len(SelectWhere(store, pair[1], pair[2])) <= 1

\* a forced run replaced the stored row of a pair while another pair had a row
C13_Witness ==
    /\ lastOp.dels > 0
    /\ lastOp.oldKeys # {}
    /\ lastOp.ins = 1
    /\ Len(SelectWhere(store, lastOp.appId, lastOp.serviceName)) = 1
    /\ Len(store) >= 2

\* C14: every row of the table carries a serialised scope list of one or
\* more scopes.
C14_AtLeastOneScope ==
    \A i \in 1..Len(store) : Len(deserialiseScopes(store[i].scopes)) >= 1

\* the key store read directly: both caches empty before the call
Uncached == [Ks EXCEPT !.byService = {}, !.byKey = {}]
\* what the call recorded in `op` does on the cache-less key store: the
\* table it leaves and what it answers
UncachedRun(op) ==
    LET apiKey == getApiKeyByKey(Uncached, op.key).value IN
    CASE op.op \in IssuanceOps ->
           generateKey(Uncached, op.appId, op.serviceName, op.force,
                       Given(op.scopes))
      [] op.op = "refreshKey" /\ apiKey # Undefined ->
           generateKey(Uncached, apiKey.appId, apiKey.serviceName, TRUE,
                       Given(deserialiseScopes(apiKey.scopes)))
      [] OTHER -> [ks |-> Uncached, value |-> 0]
UncachedFound(op) ==
    LET apiKey == getApiKeyByKey(Uncached, op.key).value IN
    IF apiKey = Undefined THEN NoScopesFound
    ELSE ScopesFound(deserialiseScopes(apiKey.scopes))

\* C15: every call answers what it would answer, and leaves the table it
\* would leave, on the key store read directly without the caches: the same
\* secret from issuance and refresh, the same failure of refreshKey on an
\* unknown key, the same scopes from getScopesForKey.
C15_CacheOverlay ==
    [][(lastOp' # lastOp \/ store' # store) =>
          /\ store' = UncachedRun(lastOp').ks.store
          /\ lastOp'.result = UncachedRun(lastOp').value
          /\ lastOp'.op = "refreshKey" =>
                (lastOp'.ok <=> getApiKeyByKey(Uncached, lastOp'.key).value # Undefined)
          /\ lastOp'.op = "getScopesForKey" =>
                lastOp'.found = UncachedFound(lastOp')]_vars

\* C25: refreshKey of a secret carried by a row that is not the row of
\* (0, null) succeeds, returns a secret other than the old one, and leaves
\* for it one row with the appId, the serviceName and the serialised scope
\* list (the same scopes in the same order) of the old row; the old secret
\* is carried by no row and has no scopes from then on.
C25_RefreshPreserves ==
    /\ [][(/\ lastOp' # lastOp
           /\ lastOp'.op = "refreshKey"
           /\ SelectByKey(store, lastOp'.key) # <<>>
           /\ ~(SelectByKey(store, lastOp'.key)[1].appId = 0
                /\ SelectByKey(store, lastOp'.key)[1].serviceName = NULL)) =>
              /\ lastOp'.ok
              /\ lastOp'.result # lastOp'.key
              /\ SelectByKey(store', lastOp'.result) =
                    <<[SelectByKey(store, lastOp'.key)[1] EXCEPT !.key = lastOp'.result]>>
              /\ SelectByKey(store', lastOp'.key) = <<>>
              /\ cloudApiKey' = cloudApiKey]_vars
    /\ [](\A r \in revoked :
            ~r.cloud => getScopesForKeyNow(r.key) = NoScopesFound)

\* a credential of two different scopes, the app scope not the default one
\* of its pair, has been refreshed: the new row carries the two in order
C25_Witness ==
    /\ lastOp.op = "refreshKey" /\ lastOp.ok /\ ~lastOp.wasCloud
    /\ lastOp.scopes = <<GlobalScope, AppScope(MaxAppId + 1)>>
    /\ getScopesForKeyNow(lastOp.result) = ScopesFound(lastOp.scopes)
    /\ getScopesForKeyNow(lastOp.key) = NoScopesFound

\* the call was a generateScopedKey without force that made no new key
Reused ==
    /\ lastOp.op = "generateScopedKey"
    /\ ~lastOp.force
    /\ lastOp.ins = 0
\* the scopes of the row that carries `key`
ScopesStoredFor(key) == ScopesOf(deserialiseScopes(SelectByKey(store, key)[1].scopes))

\* C26: when generateScopedKey without force hands back the secret of an
\* existing row instead of making a new key, the set of scopes of that row
\* is the set of the desired scopes.
C26_ReuseEqualScopes ==
    Reused => ScopesStoredFor(lastOp.result) = ScopesOf(lastOp.scopes)

\* C27: every step in which generateScopedKey reads or writes the key store
\* (its lookup of the pair, a delete, an insert, a cache clear) is taken
\* after `initialized` has resolved, when cloudApiKey is set and the table
\* holds a row for (0, null).
C27_InitializedFirst ==
    [][(lastOp' # lastOp /\ lastOp'.op = "generateScopedKey") =>
          /\ inited
          /\ cloudApiKey # 0
          /\ SelectWhere(store, 0, NULL) # <<>>]_vars

\* generateScopedKey has made a key for a pair, after initialization
C27_Witness ==
    /\ lastOp.op = "generateScopedKey"
    /\ lastOp.ins = 1
    /\ inited
    /\ \E t \in returned : t[1] = 0 /\ t[2] = NULL

\* C28: once `initialized` has resolved, between calls, cloudApiKey is set
\* and is the secret of the row stored for (0, null).
C28_CloudApiKey ==
    inited =>
        /\ cloudApiKey # 0
        /\ StoredKeys(store, 0, NULL) = {cloudApiKey}

\* the pair the rows of a cached by-pair lookup belong to is the pair the
\* entry is consulted for
OwnEntry(pair) ==
    CacheHas(cacheByService, normalizer(pair[1], pair[2])) =>
        \A i \in 1..Len(CacheGet(cacheByService, normalizer(pair[1], pair[2]))) :
            LET row == CacheGet(cacheByService, normalizer(pair[1], pair[2]))[i] IN
            row.appId = pair[1] /\ row.serviceName = pair[2]

\* C29: the by-pair cache entry consulted for a pair holds rows of that pair
\* only; the secret an issuance or refresh call for a pair returns is
\* carried by a row of that pair; and such a call leaves the rows of every
\* other pair as they were.
C29_PairIsolation ==
    /\ [](\A pair \in Pairs : OwnEntry(pair))
    /\ []((lastOp.op \in IssuanceOps \cup {"refreshKey"} /\ lastOp.ok) =>
            \A i \in 1..Len(store) :
                store[i].key = lastOp.result =>
                    /\ store[i].appId = lastOp.appId
                    /\ store[i].serviceName = lastOp.serviceName)
    /\ [][\A pair \in Pairs :
            (lastOp' # lastOp /\ lastOp'.op \in IssuanceOps \cup {"refreshKey"}
               /\ pair # <<lastOp'.appId, lastOp'.serviceName>>) =>
                SelectWhere(store', pair[1], pair[2]) =
                    SelectWhere(store, pair[1], pair[2])]_vars

\* step `first` is made before step `then` in the run
Before(steps, first, then) ==
    \E i, j \in 1..Len(steps) : i < j /\ steps[i] = first /\ steps[j] = then
Made(steps, step) == \E i \in 1..Len(steps) : steps[i] = step
\* the call inserted a row: a creating or rotating run of generateKey
MadeNewKey == lastOp.ok /\ lastOp.ins > 0

\* C22: a run of generateKey that made a new key made its writes in the
\* order: the delete statement (made if and only if the run was forced, by
\* its caller or by a scope mismatch), the clear of the by-secret cache
\* (made whenever the pair had a row), the clear of the by-pair cache, and
\* last of all the one insert statement; when the call returns neither
\* cache holds an entry for the pair or for a secret the pair had.
C22_RotationOrder ==
    MadeNewKey =>
        /\ lastOp.steps[Len(lastOp.steps)] = "insert"
        /\ lastOp.ins = 1
        /\ Made(lastOp.steps, "delete") <=> (lastOp.force \/ lastOp.calls > 1)
        /\ Before(lastOp.steps, "clearByService", "insert")
        /\ lastOp.oldKeys # {} => Before(lastOp.steps, "clearByKey", "clearByService")
        /\ Made(lastOp.steps, "delete") =>
              /\ Before(lastOp.steps, "delete", "clearByService")
              /\ ~Before(lastOp.steps, "clearByKey", "delete")
              /\ ~Before(lastOp.steps, "clearByService", "delete")
        /\ ~CacheHas(cacheByService, normalizer(lastOp.appId, lastOp.serviceName))
        /\ \A k \in lastOp.oldKeys : ~CacheHas(cacheByKey, k)

\* a forced run on a pair that had a row: delete, both clears, insert
C22_Witness ==
    /\ MadeNewKey
    /\ lastOp.force
    /\ lastOp.oldKeys # {}
    /\ lastOp.steps = <<"delete", "clearByKey", "clearByService", "insert">>

-----------------------------------------------------------------------------
(***************************************************************************)
(* Properties of withDefault, checked under SpecDefault.                   *)
(***************************************************************************)
\* shouldDefault(v) holds for the input decoded
Defaulted == ShouldDefault(wd.shouldDefault, wd.v)

-----------------------------------------------------------------------------
(***************************************************************************)
(* Properties of racing rotations, checked under SpecRace.                 *)
(***************************************************************************)
\* C16: once both rotations have completed, the only row stored for the pair
\* is the one written by the call whose insert came last, and the secret of
\* the other call is not found by a lookup.
C16_LastWriterWins ==
    (\A p \in 1..2 : race.proc[p].pc = "done") =>
        LET last == race.writers[2]
            other == race.writers[1] IN
        /\ StoredKeys(store, race.appId, race.serviceName) = {race.proc[last].key}
        /\ getScopesForKeyNow(race.proc[other].key) = NoScopesFound

\* call p is the only rotation that has started
OnlyRotation(p) == \A q \in 1..2 : q # p => race.proc[q].pc = "start"
\* the by-secret cache holds no entry that resolves `key` to a row
NoRowCachedFor(cache, key) ==
    CacheHas(cache, key) => CacheGet(cache, key) = Undefined

\* C23: while a rotation of a pair that had a row is between its cache
\* clears and its insert statement, a generateKey call that looks the pair
\* up gets the old or the new row, not an empty list, and a lookup of the
\* old secret that misses the cache gets the old row.
C23_ReaderSeesRow ==
    [][\A p \in 1..2 :
         (race.old # 0 /\ race.proc[p].pc = "inserting") =>
            /\ \A q \in 1..2 :
                  (race.proc[q].pc = "start" /\ race'.proc[q].pc = "looked") =>
                      /\ race'.proc[q].secrets # <<>>
                      /\ race'.proc[q].secrets[1].key \in {race.old, race.proc[p].key}
            /\ (/\ OnlyRotation(p)
                /\ cacheByKey' # cacheByKey
                /\ lastOp'.op = "getScopesForKey"
                /\ lastOp'.key = race.old) => lastOp'.found.known]_vars

\* C24 (as amended): when a forced rotation of a pair that had a row, the
\* only rotation running, returns, the by-secret cache holds no entry that
\* resolves the old secret to a row (it may hold one that resolves it to no
\* row, left by a lookup made between the clears and the insert); from then
\* on getScopesForKey(old secret) answers null.
C24_LookupDuringRotation ==
    /\ [](\A p \in 1..2 :
            (race.old # 0 /\ OnlyRotation(p) /\ race.proc[p].pc = "done") =>
                /\ getScopesForKeyNow(race.old) = NoScopesFound
                /\ NoRowCachedFor(cacheByKey, race.old))
    /\ [][\A p \in 1..2 :
            (race.old # 0 /\ OnlyRotation(p) /\ race.proc[p].pc = "inserting"
               /\ race'.proc[p].pc = "done") =>
                NoRowCachedFor(cacheByKey', race.old)]_vars

\* the rotation has returned after a lookup of the old secret, made while it
\* ran, had found the old row; the old secret has no scopes now
C24_Witness ==
    /\ race.old # 0
    /\ OnlyRotation(1)
    /\ race.proc[1].pc = "done"
    /\ lastOp.op = "getScopesForKey"
    /\ lastOp.key = race.old
    /\ lastOp.found.known
    /\ getScopesForKeyNow(race.old) = NoScopesFound

\* C24 as stated: when the rotation returns the by-secret cache holds no
\* entry at all for the old secret
C24_NoEntrySurvives ==
    [][\A p \in 1..2 :
          (race.old # 0 /\ OnlyRotation(p) /\ race.proc[p].pc = "inserting"
             /\ race'.proc[p].pc = "done") =>
              ~CacheHas(cacheByKey', race.old)]_vars

\* C30: a call whose delete or insert statement failed makes no further
\* statement.  When the insert statement of the only rotation running has
\* failed, the pair has no row, the by-pair cache has no entry for it, the
\* by-secret cache resolves the old secret to no row, and for the pair
\* (0, null) cloudApiKey is still the old secret, which no row carries.
\* When its delete statement has failed the table and cloudApiKey are as
\* they were.
C30_StoreFailure ==
    /\ [][\A p \in 1..2 :
            race.proc[p].pc \in {"deleteFailed", "insertFailed"} =>
                race'.proc[p] = race.proc[p]]_vars
    /\ [](\A p \in 1..2 :
            (OnlyRotation(p) /\ race.proc[p].pc = "insertFailed") =>
                /\ StoredKeys(store, race.appId, race.serviceName) = {}
                /\ ~CacheHas(cacheByService,
                             normalizer(race.appId, race.serviceName))
                /\ race.old # 0 => NoRowCachedFor(cacheByKey, race.old)
                /\ race.serviceName = NULL =>
                      /\ cloudApiKey = race.old
                      /\ SelectByKey(store, cloudApiKey) = <<>>)
    /\ [](\A p \in 1..2 :
            (OnlyRotation(p) /\ race.proc[p].pc = "deleteFailed") =>
                /\ StoredKeys(store, race.appId, race.serviceName) =
                      (IF race.old = 0 THEN {} ELSE {race.old})
                /\ cloudApiKey = 1)

\* the insert statement of generateCloudKey(true) has failed: cloudApiKey is
\* the secret of the deleted row and has no scopes
C30_Witness ==
    /\ OnlyRotation(1)
    /\ race.proc[1].pc = "insertFailed"
    /\ race.serviceName = NULL
    /\ cloudApiKey = race.old
    /\ getScopesForKeyNow(cloudApiKey) = NoScopesFound

-----------------------------------------------------------------------------
(***************************************************************************)
(* Properties of inputValidator, checked under SpecVal.                    *)
(***************************************************************************)
IsRequired(check) == check.schemas[1].self = "required"
NamesOf(check) == {check.schemas[i].name : i \in 1..Len(check.schemas)}
\* check k is the first required check whose decoding is a left
FirstFailing(k) ==
    /\ k \in 1..Len(checks)
    /\ IsRequired(checks[k])
    /\ decodedInputs[k].settled
    /\ ~isRight(decodedInputs[k].decoded)
    /\ \A j \in 1..(k - 1) : isRight(decodedInputs[j].decoded)
\* the response is the rejection the schema of check k computes
RejectedBy(k) ==
    /\ response.writableEnded
    /\ response.sends = 1
    /\ response.statusCode = getErrorCode(decodedInputs[k].schema, req)
    /\ response.body = getMessage(decodedInputs[k].schema, req)
    /\ nextCalls = 0
\* no check after k has been handled: the loop stopped at k, nothing of a
\* later check is in res.locals and nothing was logged
NothingAppliedAfter(k) ==
    /\ applied = [j \in 1..k |-> j]
    /\ \A j \in (k + 1)..Len(checks) :
          \A name \in NamesOf(checks[j]) : response.locals[name] = JsUndefined
    /\ warned = <<>>

\* C7 (as amended): when the handler is done and a required check has failed
\* to decode, the response is the status and message of the first such
\* check's schema, written once, and no check declared after it has been
\* handled (nothing of it is stored, nothing is logged); every check of the
\* route, the later ones included, was nevertheless decoded and every default
\* provider called before the first result was handled.
C7_RequiredRejection ==
    valPc = "done" =>
        \A k \in 1..Len(checks) :
            FirstFailing(k) =>
                /\ RejectedBy(k)
                /\ NothingAppliedAfter(k)
                /\ \A j \in 1..Len(checks) : decodedInputs[j].settled
                /\ defaultCalls = DefaultsCalled(checks)

\* a rejection by a required check that a check with a default provider follows
C7_Witness ==
    /\ valPc = "done"
    /\ \E k \in 1..Len(checks) :
          /\ FirstFailing(k)
          /\ RejectedBy(k)
          /\ \E j \in (k + 1)..Len(checks) : hasGetDefault(checks[j].schemas[1])

\* C7 as stated: after a required check's rejection no later check has been
\* decoded or has had its default provider called
C7_NoLaterCheckEvaluated ==
    valPc = "done" =>
        \A k \in 1..Len(checks) :
            FirstFailing(k) =>
                /\ RejectedBy(k)
                /\ NothingAppliedAfter(k)
                /\ \A j \in (k + 1)..Len(checks) :
                      /\ ~decodedInputs[j].settled
                      /\ \A i \in 1..Len(defaultCalls) :
                            defaultCalls[i] \notin NamesOf(checks[j])

\* an optional check marked warn whose decoding is a left
WarnFieldInvalid(k) ==
    /\ k \in 1..Len(checks)
    /\ ~IsRequired(checks[k])
    /\ checks[k].schemas[1].warn
    /\ decodedInputs[k].settled
    /\ ~isRight(decodedInputs[k].decoded)
\* the terminal state Validated: no response written by the validator and
\* control handed to the route handler
Validated == valPc = "done" /\ ~response.writableEnded /\ nextCalls = 1

\* C8: when the handler is done, a warn field was invalid and no required
\* check failed, exactly one warning has been logged, the request was not
\* rejected and it ended Validated.
C8_WarnField ==
    valPc = "done" =>
        \A k \in 1..Len(checks) :
            (WarnFieldInvalid(k) /\ \A j \in 1..Len(checks) : ~FirstFailing(j)) =>
                /\ Len(warned) = 1
                /\ response.statusCode = StatusOk
                /\ Validated

\* the decodings of the alternatives of check k, as type.decode gives them
AlternativeDecoded(k, i) ==
    Validate(checks[k].schemas[i].type,
             req[checks[k].schemas[i].location][checks[k].schemas[i].name])
RightAlternatives(k) ==
    {i \in 1..Len(checks[k].schemas) : isRight(AlternativeDecoded(k, i))}

\* C9: a settled oneOf group carries its first alternative that decodes, or,
\* if none does, its first alternative with that alternative's failure; once
\* the group has been handled the winning alternative's decoded value is in
\* res.locals under that alternative's name, or the response is the rejection
\* computed by the first alternative's schema.
C9_OneOfResolution ==
    \A k \in 1..Len(checks) :
        (checks[k].oneOf /\ decodedInputs[k].settled) =>
            LET rights == RightAlternatives(k)
                winner == IF rights = {} THEN 1 ELSE Min(rights) IN
            /\ decodedInputs[k].schema = checks[k].schemas[winner]
            /\ decodedInputs[k].decoded = AlternativeDecoded(k, winner)
            /\ (valPc = "done" /\ \E a \in 1..Len(applied) : applied[a] = k) =>
                  IF rights = {}
                  THEN RejectedBy(k)
                  ELSE response.locals[checks[k].schemas[winner].name]
                          = AlternativeDecoded(k, winner).value

\* a handled oneOf group whose first alternative failed and whose second
\* alternative's value was stored
C9_Witness ==
    /\ valPc = "done"
    /\ \E k \in 1..Len(checks) :
          /\ checks[k].oneOf
          /\ \E a \in 1..Len(applied) : applied[a] = k
          /\ ~isRight(AlternativeDecoded(k, 1))
          /\ isRight(AlternativeDecoded(k, 2))
          /\ response.locals[checks[k].schemas[2].name] = AlternativeDecoded(k, 2).value
          /\ response.locals[checks[k].schemas[1].name] = JsUndefined

\* the route of the request has an entry in inputValidationSchema
Registered == inputValidationSchema(methodAndPath).found
\* some required check failed to decode
SomeCheckRejects == \E k \in 1..Len(checks) : FirstFailing(k)

\* C11: when the handler is done with a request whose route has a schema:
\* if no check rejected, next() was called exactly once and the validator
\* wrote no response; if a check rejected, next() was not called and the
\* response is the status and message that check's schema computes.
C11_HandOff ==
    (valPc = "done" /\ Registered) =>
        IF SomeCheckRejects
        THEN \E k \in 1..Len(checks) : FirstFailing(k) /\ RejectedBy(k)
        ELSE Validated

\* res.locals holds a decoded appId the caller's scopes do not cover
DecodedAppIdOutOfScope ==
    /\ response.locals["appId"].t = "number"
    /\ ~isScoped(Apps({response.locals["appId"].v.n}), auth)

\* C12: when the handler is done, no check rejected and the decoded appId in
\* res.locals is not covered by the caller's scopes, the response is a 401
\* written once and next() was not called.
C12_AuthorizationGate ==
    (valPc = "done" /\ ~SomeCheckRejects /\ DecodedAppIdOutOfScope) =>
        /\ response.writableEnded
        /\ response.sends = 1
        /\ response.statusCode = StatusUnauthorized
        /\ nextCalls = 0

\* C18: when the handler is done with a request whose route has no schema,
\* next() was called exactly once, no response was written, nothing was
\* logged, no check was decoded, no default provider was called and res.locals
\* is as it was.
C18_PassThrough ==
    (valPc = "done" /\ ~Registered) =>
        /\ nextCalls = 1
        /\ response = FreshResponse(LocalNames)
        /\ warned = <<>>
        /\ checks = <<>> /\ decodedInputs = <<>> /\ applied = <<>>
        /\ defaultCalls = <<>>

\* a request passed through whose path has an identifier segment: a route
\* key with ':appId' that is not registered
C18_Witness ==
    /\ valPc = "done"
    /\ ~Registered
    /\ nextCalls = 1
    /\ req.params.appId # JsUndefined

\* C19: when the handler is done with a POST /v1/restart whose body holds a
\* valid appId and a boolean force, res.locals.force is the body's force,
\* whatever lockOverride is, and the request was handed to the route handler.
C19_ForceFromBody ==
    (/\ valPc = "done"
     /\ methodAndPath = "POST /v1/restart"
     /\ isRight(NumericIdentifier(req.body.appId))
     /\ req.body.force.t = "boolean") =>
        /\ response.locals["force"] = req.body.force
        /\ Validated

\* the route of the request, as received, has a schema
RequestRegistered ==
    inputValidationSchema(getRouteMethodAndPath(req).methodAndPath).found
\* the terminal state Rejected(status, message)
Rejected ==
    /\ valPc = "done"
    /\ \E k \in 1..Len(checks) : FirstFailing(k) /\ RejectedBy(k)
Terminal == Rejected \/ Validated

\* C17: a request whose route has a schema eventually reaches Rejected or
\* Validated, never both; a terminal state is never left; the validator
\* writes at most one response.
C17_StateMachine ==
    /\ RequestRegistered ~> Terminal
    /\ [](~(Rejected /\ Validated))
    /\ [][Terminal => Terminal']_vars
    /\ [](response.sends <= 1)

\* checks k and j are required checks whose decodings are both lefts
BothFail(k, j) ==
    /\ k < j
    /\ IsRequired(checks[k]) /\ IsRequired(checks[j])
    /\ ~isRight(decodedInputs[k].decoded)
    /\ ~isRight(decodedInputs[j].decoded)

\* C21: whatever the order in which the promises of the checks settled,
\* the handler that is done has handled the checks in declared order, the
\* required ones before the optional ones, and when two required checks
\* both failed to decode the response carries the status and message of the
\* first required check that failed, never those the later one computes
\* where they differ.
C21_DeclaredOrder ==
    (valPc = "done" /\ Registered) =>
        /\ applied = [j \in 1..Len(applied) |-> j]
        /\ \A k, j \in 1..Len(checks) :
              (k < j /\ IsRequired(checks[j])) => IsRequired(checks[k])
        /\ \A k, j \in 1..Len(checks) :
              (BothFail(k, j) /\ FirstFailing(k)) =>
                  /\ RejectedBy(k)
                  /\ applied = [i \in 1..k |-> i]

\* two required checks both failed, the later one's promise settled first,
\* and the response is the rejection of the earlier one, which differs from
\* the rejection the later one computes
C21_Witness ==
    /\ valPc = "done"
    /\ \E k, j \in 1..Len(checks) :
          /\ BothFail(k, j)
          /\ FirstFailing(k)
          /\ decodedInputs[j].order < decodedInputs[k].order
          /\ RejectedBy(k)
          /\ getMessage(decodedInputs[j].schema, req) # response.body

-----------------------------------------------------------------------------
(***************************************************************************)
(* Properties of getRouteMethodAndPath, checked under SpecRoute.           *)
(***************************************************************************)
\* both requests are routed to the key with ':appId' in place of their
\* identifier segments, and each has its own segment in params.appId
SameKeyOwnAppId ==
    \E prefix \in RoutePrefixes, suffix \in RouteSuffixes :
        \A k \in 1..2 :
            /\ routeReqs[k].path = prefix \o routeIds[k] \o suffix
            /\ routed[k].methodAndPath =
                  routeReqs[k].method \o " " \o Join(prefix) \o ":appId"
                      \o Join(suffix)
            /\ routed[k].appId = JsStr(routeIds[k])
IsAlnumId(id) == id # <<>> /\ \A i \in 1..Len(id) : id[i] \in Alnum

\* C10 (as amended): two requests of one method whose paths differ only in
\* the segment after /v1|v2/apps|applications/, each segment a non-empty run
\* of [a-zA-Z0-9], get the same route key, with ':appId' in place of the
\* segment, and each gets its own segment as params.appId.
C10_PathNormalization ==
    (routed[1].done /\ routed[2].done
     /\ IsAlnumId(routeIds[1]) /\ IsAlnumId(routeIds[2])) => SameKeyOwnAppId

\* two routed requests with different alphanumeric identifiers
C10_Witness ==
    /\ routed[1].done /\ routed[2].done
    /\ IsAlnumId(routeIds[1]) /\ IsAlnumId(routeIds[2])
    /\ routeIds[1] # routeIds[2]
    /\ routed[1].methodAndPath = routed[2].methodAndPath
    /\ routed[1].appId # routed[2].appId

\* C10 as stated: whatever the two identifier segments are
C10_AnySegment ==
    (routed[1].done /\ routed[2].done) => SameKeyOwnAppId

-----------------------------------------------------------------------------
(***************************************************************************)
(* What handleLeft does with a failed optional check, under SpecVal.       *)
(***************************************************************************)
\* the state the apply loop starts from
LoopStart == [res |-> FreshResponse(LocalNames), warned |-> <<>>, applied |-> <<>>]
\* the distinct messages the failure of check k carries
CarriedMessages(k) ==
    {decodedInputs[k].decoded.errors[i] :
        i \in 1..Len(decodedInputs[k].decoded.errors)} \ {NoMessage}
\* what handleLeft makes of the failure of check k, on a fresh response
LeftHandled(k) ==
    handleLeft(req, LoopStart, decodedInputs[k].schema, decodedInputs[k].decoded)
\* the loop has handled every check of the route, in declared order
EveryCheckApplied == applied = [j \in 1..Len(checks) |-> j]

\* C31: when the handler is done and a field marked warn failed to decode,
\* the messages passed to the logger are the distinct messages the failure
\* carries, each once, or, if it carries none, exactly the static message of
\* the schema's getMessage; nothing is stored under the field's name, the
\* handling of the failure writes no response, and the loop goes on to
\* handle every check of the route.
C31_WarnMessages ==
    valPc = "done" =>
        \A k \in 1..Len(checks) :
            WarnFieldInvalid(k) =>
                /\ IF CarriedMessages(k) = {}
                   THEN warned = <<getMessage(decodedInputs[k].schema, req).message>>
                   ELSE /\ {warned[i] : i \in 1..Len(warned)} = CarriedMessages(k)
                        /\ Len(warned) = Cardinality(CarriedMessages(k))
                /\ response.locals[decodedInputs[k].schema.name] = JsUndefined
                /\ LeftHandled(k).res = LoopStart.res
                /\ EveryCheckApplied

\* a failure that carries two distinct messages, both logged
C31_Witness ==
    /\ valPc = "done"
    /\ \E k \in 1..Len(checks) :
          /\ WarnFieldInvalid(k)
          /\ Cardinality(CarriedMessages(k)) = 2
          /\ Len(warned) = 2
          /\ EveryCheckApplied
\* a failure that carries no message: the static message is logged
C31_WitnessStatic ==
    /\ valPc = "done"
    /\ \E k \in 1..Len(checks) :
          /\ WarnFieldInvalid(k)
          /\ CarriedMessages(k) = {}
          /\ warned = <<"Key 'network' must exist in PATCH body">>

\* an optional check without warn whose decoding is a left
OptionalFieldInvalid(k) ==
    /\ k \in 1..Len(checks)
    /\ ~IsRequired(checks[k])
    /\ ~checks[k].schemas[1].warn
    /\ decodedInputs[k].settled
    /\ ~isRight(decodedInputs[k].decoded)

\* C32: when the handler is done, no required check failed and an optional
\* field that is not marked warn failed to decode, the raw value is still in
\* the request as it was received, nothing is stored under the field's name,
\* the handling of the failure logs nothing and writes no response (no
\* rejection is written at all), and every check of the route is handled.
C32_OptionalFailure ==
    valPc = "done" =>
        \A k \in 1..Len(checks) :
            (OptionalFieldInvalid(k) /\ \A j \in 1..Len(checks) : ~FirstFailing(j)) =>
                /\ req \in ValRequests
                /\ Validate(decodedInputs[k].schema.type,
                            req[decodedInputs[k].schema.location]
                               [decodedInputs[k].schema.name])
                      = decodedInputs[k].decoded
                /\ response.locals[decodedInputs[k].schema.name] = JsUndefined
                /\ LeftHandled(k) = LoopStart
                /\ warned = <<>>
                /\ response.statusCode = StatusOk
                /\ EveryCheckApplied

\* unit: 5 on POST /v2/journal-logs, with a later field still stored
C32_Witness ==
    /\ valPc = "done"
    /\ \E k \in 1..Len(checks) :
          /\ OptionalFieldInvalid(k)
          /\ k < Len(checks)
          /\ response.locals[checks[Len(checks)].schemas[1].name] # JsUndefined
          /\ EveryCheckApplied

\* the raw value of the first schema of check k, as the request holds it
RawInput(k) == req[checks[k].schemas[1].location][checks[k].schemas[1].name]

\* C33: whenever an optional check with a default provider has been decoded,
\* the decoding succeeded, and once the handler is done without a rejection
\* res.locals holds under the field's name either what the raw input decodes
\* to or the default provider's value; the decoding never throws.
C33_DefaultFallback ==
    /\ valPc # "threw"
    /\ \A k \in 1..Len(checks) :
          (~checks[k].oneOf /\ hasGetDefault(checks[k].schemas[1])
           /\ decodedInputs[k].settled) =>
              /\ isRight(decodedInputs[k].decoded)
              /\ (valPc = "done" /\ EveryCheckApplied) =>
                    response.locals[checks[k].schemas[1].name]
                        \in {getDefault(checks[k].schemas[1], lockOverride)}
                            \cup {Validate(checks[k].schemas[1].type, RawInput(k)).value :
                                    ok \in {b \in {TRUE} :
                                              isRight(Validate(checks[k].schemas[1].type,
                                                               RawInput(k)))}}

\* the API version of a path: the segment right after the leading slash
IsV1Path(path) == Len(path) >= 3 /\ path[2] = "v" /\ path[3] = "1"
IsV2Path(path) == Len(path) >= 3 /\ path[2] = "v" /\ path[3] = "2"

\* C34: when the handler is done on a registered route and the check that
\* rejected is the shared appId check, the status is 400 and the body is the
\* plain message on a v1 route and {status: 'failed', message} on a v2
\* route, whatever the identifier segment of the path.
C34_BodyByVersion ==
    (valPc = "done" /\ Registered) =>
        \A k \in 1..Len(checks) :
            (FirstFailing(k) /\ decodedInputs[k].schema.message = "appId") =>
                /\ response.statusCode = StatusBadRequest
                /\ IsV1Path(req.path) =>
                      response.body = Text("messages.missingAppIdInputErrorMessage")
                /\ IsV2Path(req.path) =>
                      response.body = FailedJson("messages.missingAppIdInputErrorMessage")

-----------------------------------------------------------------------------
-----------------------------------------------------------------------------
(***************************************************************************)
(* Properties of stopOrStart, checked under SpecStopStart.                 *)
(***************************************************************************)
\* the caller's scopes cover the application the request names
CallerScoped == isScoped(Apps({ss.appId}), ss.auth)
\* the volatile target was set or executeStep was called
Acted == ss.volatile # {} \/ ss.executed # <<>>
\* the app exists and has exactly one service
SingleContainerApp == ss.app.present /\ ss.app.services = 1

\* C36 (as amended): when the caller's scopes do not cover the application,
\* the handler never sets the volatile target and never calls executeStep
\* (both happen only in a run whose scope check passed), and once it is
\* done it has answered 401 'Unauthorized' if the lookups resolved and the
\* app exists with exactly one service, 400 if they resolved and it does
\* not, and has answered nothing but passed the error to next if a lookup
\* was rejected.
C36_ScopeGate ==
    ~CallerScoped =>
        /\ ~Acted
        /\ ss.pc \in {"called", "done"}
        /\ ss.pc = "done" =>
              IF ss.nextCalls > 0
              THEN ~ss.res.writableEnded /\ ss.nextCalls = 1
              ELSE /\ ss.res.sends = 1
                   /\ ss.res.statusCode =
                          IF SingleContainerApp THEN StatusUnauthorized
                          ELSE StatusBadRequest
                   /\ SingleContainerApp => ss.res.body = Text("Unauthorized")

\* an out-of-scope caller answered 401
C36_Witness ==
    /\ ~CallerScoped
    /\ ss.pc = "done"
    /\ ss.res.statusCode = StatusUnauthorized
    /\ ~Acted
\* a scoped caller whose request set the target and ran the step
C36_WitnessActed ==
    /\ CallerScoped
    /\ ss.pc = "done"
    /\ Acted
    /\ ss.res.statusCode = StatusOk

\* C36 as stated: whenever the caller's scopes do not cover the application
\* the handler answers 401
C36_AlwaysUnauthorized ==
    (~CallerScoped /\ ss.pc = "done") =>
        /\ ss.res.writableEnded
        /\ ss.res.statusCode = StatusUnauthorized
        /\ ~Acted

-----------------------------------------------------------------------------
(***************************************************************************)
(* Properties of the host-config patch, checked under SpecHost.            *)
(***************************************************************************)
\* patchProxy has returned in this run of patch
Patched == host.pc = "writing" \/ (host.pc = "done" /\ host.error = ""
                                      /\ WantsProxyOrDns(host.target))
\* the configuration has a dns block; it has a redsocks block with a field
HasDns(conf) == IsObject(conf.dns)
HasRedsocksField(conf) == IsObject(conf.redsocks) /\ Keys(conf.redsocks) # {}

CarriesHostname == host.target.hostname \notin {JsUndefined, JsNull}
NewHostname == IF Falsy(host.target.hostname) THEN UuidPrefix ELSE host.target.hostname

\* C38: the hostname is written only before the lock is asked for and the
\* stored proxy and dns configuration changes only while patch holds the
\* update lock, which it holds only if no application holds a lock or force
\* is set; a hostname the patch carries has been written by the time the
\* lock is asked for; and when a patch that carries proxy or dns is done
\* with locks present and force false, it has failed with
\* UpdatesLockedError, the proxy and dns configuration is as it was, and
\* the hostname it carries has been written.
C38_LockDiscipline ==
    /\ [][(host'.hostname # host.hostname =>
               (host.pc = "setHostname" /\ ~host.holding))
           /\ (host'.conf # host.conf => host.holding)]_vars
    /\ [](/\ host.holding => (~host.locked \/ host.force)
          /\ (host.pc \in {"locking", "reading", "writing"} /\ CarriesHostname) =>
                host.hostname = NewHostname
          /\ (host.pc = "done" /\ WantsProxyOrDns(host.target) /\ host.locked
               /\ ~host.force) =>
                  (/\ host.error = "UpdatesLockedError"
                   /\ host.conf = host.before
                   /\ (CarriesHostname => host.hostname = NewHostname)))

\* a refused patch of proxy and hostname: the hostname is written
C38_Witness ==
    /\ host.pc = "done"
    /\ host.error = "UpdatesLockedError"
    /\ host.target.proxy # JsUndefined
    /\ host.target.hostname = JsStr(<<"t">>)
    /\ host.hostname = JsStr(<<"t">>)
    /\ host.conf = host.before
\* a forced patch under locks that changed the stored configuration
C38_WitnessForced ==
    /\ host.pc = "done"
    /\ host.locked /\ host.force
    /\ host.conf # host.before

-----------------------------------------------------------------------------
(***************************************************************************)
(* Properties of writeFileAtomic, checked under SpecFiles.                 *)
(***************************************************************************)
\* the callers that were started
Started == {w \in Writers : fsys.pc[w] # "idle"}

\* C39: a reader of the path only ever sees the previous content or the
\* whole data of a caller; no call fails; and when every call is done the
\* content of the path is the data of one of the callers.
C39_AtomicReplace ==
    /\ fsys.observed \subseteq {OldContent} \cup {DataOf(w) : w \in Started}
    /\ \A w \in Started : fsys.pc[w] # "failed"
    /\ (\A w \in Started : fsys.pc[w] = "done") =>
          fsys.content[fsys.dir.target] \in {DataOf(w) : w \in Started}

\* the same for a single caller
C39_SingleWriter ==
    Started = {1} => C39_AtomicReplace

====
